---- MODULE Spec2Model ----
(***************************************************************************)
(* Agent lifecycle controller of leavenotrace/a2a.                        *)
(*                                                                         *)
(* The model follows utils/processManager.js (ProcessManager),            *)
(* services/agentService.js (AgentService) and models/Agent.js (the      *)
(* Sequelize row and its instance methods).  JavaScript runs one task at  *)
(* a time and yields at every await, so each action is the code from one  *)
(* resumption up to and including the database call of the next await.    *)
(* A row read by findByPk becomes a separate in-memory instance; the      *)
(* registry entry keeps a reference to the instance it was started with.  *)
(***************************************************************************)
EXTENDS Integers, Sequences, FiniteSets, TLC

\* ---- bounds of the model ----
NumAgents == 2
NumPorts == 2
\* Spec: tasks and children created from the fresh supervisor
MaxTasks == 2
MaxChildren == 2
\* SpecOps: tasks and children created around one running agent
OpsTasks == 3
OpsChildren == 2
\* SpecGate: tasks and children created around one running agent
GateTasks == 3
GateChildren == 2
\* SpecStop: tasks created around one running agent
StopTasks == 4
\* SpecRestart: tasks and children created around one running agent
RestartTasks == 3
RestartChildren == 2
\* SpecGrace: tasks created around one running agent
GraceTasks == 3
\* Update and delete requests around one stop.
EditTasks == 4
\* Requests of three principals around one stop.
AuthTasks == 3
\* Calls of the port allocator on one table.
HealthTasks == 5
HealthChildren == 5
ShutTasks == 4
ShutChildren == 2
NumNames == 2
NameTasks == 4
MergeTasks == 2
ConfigTasks == 2
MaxChunk == 2
StdoutTasks == 3
StdoutChildren == 2
AllocCalls == 2
\* A start on a full range, a stop, and the start retried.
FullTasks == 4
FullChildren == 2
\* Crash, automatic restart, then stop and start requests.
CountTasks == 4
CountChildren == 3
\* SpecCrash: the crash chain of one agent without API requests
CrashTasks == 5
CrashChildren == 4

\* ---- program constants ----
StartPort == 3001
maxRestartAttempts == 3

Agents == 1..NumAgents
NoPort == 0
NoPid == 0
NoChild == 0
NoMsg == "null"

\* The API is driven by two clients; each waits for the response to its
\* request before it sends the next one.
Clients == {"c1", "c2"}
NoClient == "none"

Statuses == {"stopped", "running", "error", "starting", "stopping"}
ActiveStatuses == {"starting", "running", "stopping"}

VARIABLES
    created,    \* ids of the agent rows that exist
    db,         \* the agents table: id -> persisted row
    inst,       \* Sequelize instances (in-memory copies of a row), by index
    tasks,      \* asynchronous operations in flight or finished, by index
    children,   \* spawned child processes with their processInfo, by index
    processes,  \* ProcessManager.processes: agent id -> child index or NoChild
    lim         \* the bounds of the run: rows, tasks and children it may create, ports configured

vars == <<created, db, inst, tasks, children, processes, lim>>

\* The configured port range: lim.ports ports from StartPort.
EndPort == StartPort + lim.ports - 1
Ports == StartPort..EndPort

\* ---- Agent.js instance methods ----
canStart(i) == inst[i].status \in {"stopped", "error"}

\* canStop widened by the status stopping.
canStopWithStopping(i) == inst[i].status \in {"running", "starting", "stopping"}

canStop(i) == inst[i].status \in {"running", "starting"}

\* canRestart widened by the status stopped.
canRestartWithStopped(i) == inst[i].status \in {"running", "error", "stopped"}

canRestart(i) == inst[i].status \in {"running", "error"}

\* updateStatus without the branch that clears the message.
StatusSetKeepsMessage(r, s, msg) ==
    [r EXCEPT !.status = s, !.err = IF msg # NoMsg THEN msg ELSE @]

\* The instance after updateStatus(status, errorMessage): the message is set
\* when given, cleared when the new status is not error, kept otherwise.
StatusSet(r, s, msg) ==
    [r EXCEPT !.status = s,
              !.err = IF msg # NoMsg THEN msg
                      ELSE IF s # "error" THEN NoMsg ELSE @]

\* A save that never issues an UPDATE.
StatusSavedNever(row, old, r) == row

\* The row after save({fields: [status, errorMessage]}) of instance r; Sequelize
\* issues no UPDATE when no attribute of the instance has changed.
StatusSaved(row, old, r) ==
    IF old = r THEN row ELSE [row EXCEPT !.status = r.status, !.err = r.err]

\* ---- Agent.findAvailablePort ----
UsedPorts == {db[a].port : a \in created} \cap Ports

\* The loop with the bound port < endPort.
RECURSIVE ScanRangeExclusive(_, _, _)
ScanRangeExclusive(port, endPort, used) ==
    IF port >= endPort THEN NoPort
    ELSE IF port \notin used THEN port
    ELSE ScanRangeExclusive(port + 1, endPort, used)

\* Lines 322-328: the ascending loop over startPort..endPort; NoPort stands
\* for the Error thrown after the loop.
RECURSIVE ScanRange(_, _, _)
ScanRange(port, endPort, used) ==
    IF port > endPort THEN NoPort
    ELSE IF port \notin used THEN port
    ELSE ScanRange(port + 1, endPort, used)

\* Lines 312-320: the ports of the rows whose port is between the two ends.
PortsBetween(startPort, endPort) == {db[a].port : a \in created} \cap (startPort..endPort)

ScanPort(port, used) == ScanRange(port, EndPort, used)

findAvailablePort == ScanPort(StartPort, UsedPorts)

\* The agents table without the unique index on port.
PortFreeNoIndex(a, p) == TRUE

\* The unique index on agents.port: a row may take port p when no other row has it.
PortFree(a, p) == \A b \in created \ {a} : db[b].port # p

\* ---- task bookkeeping ----
\* Values of the description field that update requests carry.
Descriptions == {"d0", "d1"}

\* Agent names are numbered; requests carry names from Names.
Names == 1..NumNames
NoName == 0

\* The agent of a task that belongs to no row; the answer of a lookup that
\* finds none.
NoAgent == 0

\* ---- configs ----
\* A config is a JSON object over Keys.  The value under a key is undefined, a
\* scalar (v) or an object over SubKeys (sub, with Undef for a missing key).
Keys == {"model", "max_tokens", "port", "limits"}
SubKeys == {"rate", "burst"}
Undef == -1

NoSub == [k \in SubKeys |-> Undef]
NoValue == [obj |-> FALSE, v |-> Undef, sub |-> NoSub]
Scalar(x) == [obj |-> FALSE, v |-> x, sub |-> NoSub]
Object(f) == [obj |-> TRUE, v |-> Undef, sub |-> f]

Has(config, k) == config[k] # NoValue

\* The config of the rows the lifecycle scenarios work on: a model and
\* nothing else.
DefaultConfig == [k \in Keys |-> IF k = "model" THEN Scalar(1) ELSE NoValue]

\* No template id in the request.
NoTemplate == 0

\* The agent_templates table: an active template with a nested object, and an
\* inactive one.  The program modelled never writes it.
AgentTemplates ==
    {[id |-> 1, isActive |-> TRUE,
      config |-> [k \in Keys |-> CASE k = "model" -> Scalar(1)
                                   [] k = "max_tokens" -> Scalar(1000)
                                   [] k = "limits" -> Object([j \in SubKeys |-> IF j = "rate" THEN 3 ELSE 4])
                                   [] OTHER -> NoValue]],
     [id |-> 2, isActive |-> FALSE, config |-> DefaultConfig]}

\* The template ids requests carry; the last one is in no row.
TemplateIds == 1..3

\* AgentTemplate.findByPk.
HasTemplate(id) == \E tp \in AgentTemplates : tp.id = id
Template(id) == CHOOSE tp \in AgentTemplates : tp.id = id

\* { ...template.config, ...config }: every own key of config replaces the
\* template's value under that key.
Spread(templateConfig, config) ==
    [k \in Keys |-> IF Has(config, k) THEN config[k] ELSE templateConfig[k]]

\* finalConfig of createAgent.
finalConfig(config, templateId) ==
    IF templateId # NoTemplate THEN Spread(Template(templateId).config, config) ELSE config

\* The validators of Agent.config: the object has a truthy model, and a port,
\* when there is one, is an integer in 1024..65535.
isValidConfig(config) ==
    /\ Has(config, "model")
    /\ config["model"].obj \/ config["model"].v # 0
    /\ Has(config, "port") =>
          ~config["port"].obj /\ config["port"].v >= 1024 /\ config["port"].v <= 65535

NewRow == [status |-> "stopped", port |-> NoPort, pid |-> NoPid, err |-> NoMsg, rc |-> 0, desc |-> "d0",
           name |-> NoName, config |-> DefaultConfig]

NewTask(cl, k, a, i, f, pc) ==
    [client |-> cl, kind |-> k, a |-> a, inst |-> i, force |-> f, pc |-> pc,
     child |-> NoChild, port |-> NoPort, err |-> NoMsg, res |-> "none", name |-> NoName,
     config |-> DefaultConfig, templateId |-> NoTemplate]

\* A task that has returned or thrown keeps its kind, agent, force flag, name
\* and outcome only.
Finished(t, res) ==
    [t EXCEPT !.client = NoClient, !.inst = 0, !.pc = "done", !.res = res,
              !.child = NoChild, !.port = NoPort, !.err = NoMsg]

\* An instance no code refers to any more.
NoInst == [a |-> 0, status |-> "stopped", port |-> NoPort, pid |-> NoPid, err |-> NoMsg, rc |-> 0, desc |-> "d0",
           name |-> NoName, config |-> DefaultConfig]

Unfinished(t) == tasks[t].pc # "done"

TaskIds == 1..Len(tasks)
ChildIds == 1..Len(children)

Limits(na, nt, nc) == [agents |-> na, tasks |-> nt, children |-> nc, ports |-> NumPorts]

\* The supervisor after construction: no rows, an empty registry.
Fresh ==
    /\ created = {}
    /\ db = [a \in Agents |-> NewRow]
    /\ inst = <<>>
    /\ tasks = <<>>
    /\ children = <<>>
    /\ processes = [a \in Agents |-> NoChild]

\* One agent started by a client and reported ready: the row is running with
\* the first port and the pid of child 1, which is in the registry.
Running ==
    /\ created = {1}
    /\ db = [a \in Agents |-> IF a = 1
                THEN [NewRow EXCEPT !.status = "running", !.port = StartPort, !.pid = 1, !.name = 1]
                ELSE NewRow]
    /\ inst = <<[a |-> 1, status |-> "running", port |-> StartPort, pid |-> 1, err |-> NoMsg, rc |-> 0, desc |-> "d0",
                 name |-> 1, config |-> DefaultConfig]>>
    /\ tasks = <<Finished(NewTask(NoClient, "start", 1, 1, FALSE, "svc"), "ok")>>
    /\ children = <<[a |-> 1, inst |-> 1, port |-> StartPort, live |-> TRUE, sig |-> "none", status |-> "running",
                     restartCount |-> 0, rdy |-> TRUE, code |-> 0, xh |-> "none", age |-> 0]>>
    /\ processes = [a \in Agents |-> IF a = 1 THEN 1 ELSE NoChild]

Init ==
    /\ Fresh
    /\ lim = Limits(NumAgents, MaxTasks, MaxChildren)

\* AgentService.createAgent with a name no row has: Agent.create inserts a
\* stopped row under the next id; the name is the number of the id.
CreateAgent ==
    /\ Cardinality(created) < lim.agents
    /\ created' = created \cup {Cardinality(created) + 1}
    /\ db' = [db EXCEPT ![Cardinality(created) + 1] = [NewRow EXCEPT !.name = Cardinality(created) + 1]]
    /\ UNCHANGED <<lim, inst, tasks, children, processes>>

\* AgentService.startAgent / stopAgent / restartAgent up to the end of
\* getAgentById: findByPk builds a fresh instance from the persisted row.
Load(cl, a, k, f) ==
    /\ a \in created
    /\ Len(tasks) < lim.tasks
    /\ \A t \in TaskIds : tasks[t].client # cl
    /\ inst' = Append(inst, [a |-> a] @@ db[a])
    /\ tasks' = Append(tasks, NewTask(cl, k, a, Len(inst) + 1, f, "svc"))
    /\ UNCHANGED <<lim, created, db, children, processes>>

\* ---- ProcessManager.cleanupProcess ----
\* The synchronous part: the registry entry's instance loses pid and port and
\* save() writes the attributes that changed.
CleanedInst(ib, c) == [ib EXCEPT ![children[c].inst].pid = NoPid, ![children[c].inst].port = NoPort]

\* A cleanup that clears the process id only.
CleanedDbKeepsPort(d, ib, c) ==
    LET j == children[c].inst
        a == ib[j].a
    IN  [d EXCEPT ![a].pid = IF ib[j].pid # NoPid THEN NoPid ELSE @]

CleanedDb(d, ib, c) ==
    LET j == children[c].inst
        a == ib[j].a
    IN  [d EXCEPT ![a].pid = IF ib[j].pid # NoPid THEN NoPid ELSE @,
                  ![a].port = IF ib[j].port # NoPort THEN NoPort ELSE @]

\* ---- ProcessManager.startAgent ----
\* The catch block, entered from instance state ib with error message msg:
\* with a registry entry under the agent id it starts cleanupProcess, without
\* one it persists status error and rethrows.
Catch(t, msg, ib) ==
    LET a == tasks[t].a
        i == tasks[t].inst
        c == processes[a]
    IN  /\ IF c # NoChild
           THEN /\ inst' = CleanedInst(ib, c)
                /\ db' = CleanedDb(db, ib, c)
                /\ tasks' = [tasks EXCEPT ![t].pc = "ct_del", ![t].err = msg]
           ELSE /\ inst' = [ib EXCEPT ![i] = StatusSet(@, "error", msg)]
                /\ db' = [db EXCEPT ![a] = StatusSaved(@, ib[i], StatusSet(ib[i], "error", msg))]
                /\ tasks' = [tasks EXCEPT ![t] = Finished(@, "error")]
        /\ UNCHANGED <<lim, created, children, processes>>

\* The catch block after cleanupProcess's save: the entry is deleted, status
\* error is persisted and the error is rethrown.
CatchDelete(t) ==
    LET a == tasks[t].a
        i == tasks[t].inst
        r == StatusSet(inst[i], "error", tasks[t].err)
    IN  /\ tasks[t].pc = "ct_del"
        /\ processes' = [processes EXCEPT ![a] = NoChild]
        /\ inst' = [inst EXCEPT ![i] = r]
        /\ db' = [db EXCEPT ![a] = StatusSaved(@, inst[i], r)]
        /\ tasks' = [tasks EXCEPT ![t] = Finished(@, "error")]
        /\ UNCHANGED <<lim, created, children>>

\* Lines 20-32: the two guards, then updateStatus('starting').
StartEntry(t) ==
    LET a == tasks[t].a
        i == tasks[t].inst
        r == StatusSet(inst[i], "starting", NoMsg)
    IN  IF processes[a] # NoChild THEN Catch(t, "already_running", inst)
        ELSE IF ~canStart(i) THEN Catch(t, "cannot_start", inst)
        ELSE /\ inst' = [inst EXCEPT ![i] = r]
             /\ db' = [db EXCEPT ![a] = StatusSaved(@, inst[i], r)]
             /\ tasks' = [tasks EXCEPT ![t].pc = "st_port"]
             /\ UNCHANGED <<lim, created, children, processes>>

\* Lines 41-76: spawn, registry entry, listeners, processId write.  The pid of
\* a child is its index; port is the AGENT_PORT handed to the worker.
Spawn(t, port) ==
    LET a == tasks[t].a
        i == tasks[t].inst
        c == Len(children) + 1
    IN  /\ Len(children) < lim.children
        /\ children' = Append(children,
               [a |-> a, inst |-> i, port |-> port, live |-> TRUE, sig |-> "none",
                status |-> "starting", restartCount |-> 0, rdy |-> FALSE,
                code |-> 0, xh |-> "none", age |-> 0])
        /\ processes' = [processes EXCEPT ![a] = c]
        /\ inst' = [inst EXCEPT ![i].pid = c]
        /\ db' = [db EXCEPT ![a].pid = c]
        /\ tasks' = [tasks EXCEPT ![t].pc = "st_wait", ![t].child = c, ![t].port = NoPort]
        /\ UNCHANGED <<lim, created>>

\* Lines 34-36 after updateStatus('starting'): an instance that holds a port
\* keeps it and goes on to spawn; otherwise findAvailablePort reads the table.
StartPortStep(t) ==
    /\ tasks[t].pc = "st_port"
    /\ IF inst[tasks[t].inst].port # NoPort
       THEN Spawn(t, inst[tasks[t].inst].port)
       ELSE /\ tasks' = [tasks EXCEPT ![t].pc = "st_save_port", ![t].port = findAvailablePort]
            /\ UNCHANGED <<lim, created, db, inst, children, processes>>

\* Lines 36-39: findAvailablePort threw, or agent.port = port; save() under
\* the unique index on port.
StartSavePort(t) ==
    LET a == tasks[t].a
        i == tasks[t].inst
        p == tasks[t].port
    IN  /\ tasks[t].pc = "st_save_port"
        /\ IF p = NoPort THEN Catch(t, "no_ports", inst)
           ELSE IF ~PortFree(a, p) THEN Catch(t, "port_taken", [inst EXCEPT ![i].port = p])
           ELSE /\ inst' = [inst EXCEPT ![i].port = p]
                /\ db' = [db EXCEPT ![a].port = p]
                /\ tasks' = [tasks EXCEPT ![t].pc = "st_spawn"]
                /\ UNCHANGED <<lim, created, children, processes>>

StartSpawn(t) ==
    /\ tasks[t].pc = "st_spawn"
    /\ Spawn(t, tasks[t].port)

\* waitForProcessReady: each poll looks the agent id up in the registry.
WaitReady(t) ==
    LET a == tasks[t].a
    IN  /\ tasks[t].pc = "st_wait"
        /\ IF processes[a] = NoChild THEN Catch(t, "not_found", inst)
           ELSE /\ children[processes[a]].status = "running"
                /\ tasks' = [tasks EXCEPT ![t] = Finished(@, "ok")]
                /\ UNCHANGED <<lim, created, db, inst, children, processes>>

\* waitForProcessReady: 30 s have passed without the entry turning running.
ReadyTimeout(t) ==
    LET a == tasks[t].a
    IN  /\ tasks[t].pc = "st_wait"
        /\ processes[a] # NoChild
        /\ children[processes[a]].status # "running"
        /\ Catch(t, "ready_timeout", inst)

\* AgentService.startAgent after getAgentById: the canStart gate, then
\* ProcessManager.startAgent up to its first await.
SvcStart(t) ==
    /\ tasks[t].pc = "svc"
    /\ tasks[t].kind = "start"
    /\ IF ~canStart(tasks[t].inst)
       THEN /\ tasks' = [tasks EXCEPT ![t] = Finished(@, "validation")]
            /\ inst' = [inst EXCEPT ![tasks[t].inst] = NoInst]
            /\ UNCHANGED <<lim, created, db, children, processes>>
       ELSE StartEntry(t)

\* ---- ProcessManager.stopAgent ----
\* What follows a stopAgent that returned true: the stop intent is done, a
\* restart goes on to its delay.
AfterStop(r) ==
    IF r.kind \in {"stop", "shutdown"} THEN Finished(r, "ok")
    ELSE [r EXCEPT !.pc = "r_delay", !.child = NoChild]

\* Lines 108-122: no registry entry persists stopped and returns; otherwise
\* the canStop/force gate, then updateStatus('stopping').
StopEntry(t) ==
    LET a == tasks[t].a
        i == tasks[t].inst
        s == IF processes[a] = NoChild THEN "stopped" ELSE "stopping"
        r == StatusSet(inst[i], s, NoMsg)
    IN  IF processes[a] # NoChild /\ ~canStop(i) /\ ~tasks[t].force
        THEN /\ tasks' = [tasks EXCEPT ![t] = Finished(@, "error")]
             /\ UNCHANGED <<lim, created, db, inst, children, processes>>
        ELSE /\ inst' = [inst EXCEPT ![i] = IF tasks[t].kind = "stop" THEN NoInst ELSE r]
             /\ db' = [db EXCEPT ![a] = StatusSaved(@, inst[i], r)]
             /\ tasks' = [tasks EXCEPT ![t] =
                   IF processes[a] = NoChild THEN AfterStop(@)
                   ELSE [@ EXCEPT !.pc = "sp_kill", !.child = processes[a]]]
             /\ UNCHANGED <<lim, created, children, processes>>

\* childProcess.kill(sig): a signal reaches only a child that has not exited.
Killed(c, sig) ==
    IF children[c].live /\ (sig = "KILL" \/ children[c].sig = "none")
    THEN [children EXCEPT ![c].sig = sig] ELSE children

\* cleanupProcess called from stopAgent (line 152) up to its save: without an
\* entry under the agent id it returns at once.
StopCleanup(t) ==
    LET c == processes[tasks[t].a]
    IN  IF c = NoChild
        THEN /\ tasks' = [tasks EXCEPT ![t] = AfterStop(@)]
             /\ UNCHANGED <<db, inst>>
        ELSE /\ inst' = CleanedInst(inst, c)
             /\ db' = CleanedDb(db, inst, c)
             /\ tasks' = [tasks EXCEPT ![t].pc = "sp_del"]

\* Lines 124-152 after updateStatus('stopping'): force sends SIGKILL and goes
\* straight to cleanupProcess; otherwise SIGTERM is sent and the task waits on
\* an exit listener registered now.
StopKill(t) ==
    /\ tasks[t].pc = "sp_kill"
    /\ UNCHANGED <<lim, created, processes>>
    /\ IF tasks[t].force
       THEN /\ children' = Killed(tasks[t].child, "KILL")
            /\ StopCleanup(t)
       ELSE /\ children' = Killed(tasks[t].child, "TERM")
            /\ tasks' = [tasks EXCEPT ![t].pc = "sp_wait"]
            /\ UNCHANGED <<db, inst>>

\* Lines 135-140: the 10 s grace timer of a waiting graceful stop fires.  It
\* sends SIGKILL only when childProcess.killed is false, and killed is true
\* from the moment a kill() has delivered a signal to the child.
GraceTimeout(t) ==
    LET c == tasks[t].child
    IN  /\ tasks[t].pc = "sp_wait"
        /\ children' = IF children[c].sig = "none" THEN Killed(c, "KILL") ELSE children
        /\ tasks' = [tasks EXCEPT ![t].pc = "sp_late"]
        /\ UNCHANGED <<lim, created, db, inst, processes>>

\* cleanupProcess after its save: the entry under the agent id is deleted.
StopDelete(t) ==
    /\ tasks[t].pc = "sp_del"
    /\ processes' = [processes EXCEPT ![tasks[t].a] = NoChild]
    /\ tasks' = [tasks EXCEPT ![t] = AfterStop(@)]
    /\ UNCHANGED <<lim, created, db, inst, children>>

\* AgentService.stopAgent after getAgentById: the canStop/force gate, then
\* ProcessManager.stopAgent up to its first await.
SvcStop(t) ==
    /\ tasks[t].pc = "svc"
    /\ tasks[t].kind = "stop"
    /\ IF ~canStop(tasks[t].inst) /\ ~tasks[t].force
       THEN /\ tasks' = [tasks EXCEPT ![t] = Finished(@, "validation")]
            /\ inst' = [inst EXCEPT ![tasks[t].inst] = NoInst]
            /\ UNCHANGED <<lim, created, db, children, processes>>
       ELSE StopEntry(t)

\* ---- ProcessManager.restartAgent ----
\* Lines 173-178: a registry entry is stopped gracefully first; then the delay.
RestartEntry(t) ==
    IF processes[tasks[t].a] # NoChild THEN StopEntry(t)
    ELSE /\ tasks' = [tasks EXCEPT ![t].pc = "r_delay"]
         /\ UNCHANGED <<lim, created, db, inst, children, processes>>

\* AgentService.restartAgent after getAgentById: the canRestart gate.
SvcRestart(t) ==
    /\ tasks[t].pc = "svc"
    /\ tasks[t].kind = "restart"
    /\ IF ~canRestart(tasks[t].inst)
       THEN /\ tasks' = [tasks EXCEPT ![t] = Finished(@, "validation")]
            /\ inst' = [inst EXCEPT ![tasks[t].inst] = NoInst]
            /\ UNCHANGED <<lim, created, db, children, processes>>
       ELSE RestartEntry(t)

\* The auto-restart timer set by the exit handler fires.
AutoRestartTimer(t) ==
    /\ tasks[t].pc = "timer"
    /\ RestartEntry(t)

\* Lines 178-181: restartDelay has passed; incrementRestartCount.
RestartDelay(t) ==
    LET a == tasks[t].a
        i == tasks[t].inst
    IN  /\ tasks[t].pc = "r_delay"
        /\ inst' = [inst EXCEPT ![i].rc = @ + 1]
        /\ db' = [db EXCEPT ![a].rc = inst[i].rc + 1]
        /\ tasks' = [tasks EXCEPT ![t].pc = "r_start"]
        /\ UNCHANGED <<lim, created, children, processes>>

\* Line 184: startAgent(agent) of the restart.
RestartStart(t) ==
    /\ tasks[t].pc = "r_start"
    /\ StartEntry(t)

\* ---- child process events ----
\* handleProcessMessage for a ready record: the entry under the agent id
\* turns running and its instance persists running.
ChildReady(c) ==
    LET a == children[c].a
        pi == processes[a]
        j == children[pi].inst
        r == StatusSet(inst[j], "running", NoMsg)
    IN  /\ children[c].live
        /\ ~children[c].rdy
        /\ IF pi = NoChild
           THEN /\ children' = [children EXCEPT ![c].rdy = TRUE]
                /\ UNCHANGED <<db, inst>>
           ELSE /\ children' = [children EXCEPT ![c].rdy = TRUE, ![pi].status = "running"]
                /\ inst' = [inst EXCEPT ![j] = r]
                /\ db' = [db EXCEPT ![a] = StatusSaved(@, inst[j], r)]
        /\ UNCHANGED <<lim, created, tasks, processes>>

\* handleProcessMessage for a heartbeat record: as ready, but the status is
\* written only when the entry's instance is not running.
ChildHeartbeat(c) ==
    LET a == children[c].a
        pi == processes[a]
        j == children[pi].inst
        r == StatusSet(inst[j], "running", NoMsg)
    IN  /\ children[c].live
        /\ children[c].rdy
        /\ pi # NoChild
        /\ children' = [children EXCEPT ![pi].status = "running", ![pi].age = 0]
        /\ inst' = [inst EXCEPT ![j] = r]
        /\ db' = [db EXCEPT ![a] = StatusSaved(@, inst[j], r)]
        /\ UNCHANGED <<lim, created, tasks, processes>>

\* The 'error' event of a child process (lines 311-314): the entry's instance
\* persists status error with the event's message.
ChildError(c) ==
    LET a == children[c].a
        j == children[c].inst
        r == StatusSet(inst[j], "error", "child_error")
    IN  /\ children[c].live
        /\ inst' = [inst EXCEPT ![j] = r]
        /\ db' = [db EXCEPT ![a] = StatusSaved(@, inst[j], r)]
        /\ UNCHANGED <<lim, created, tasks, children, processes>>


\* ---- the stdout 'data' listener ----
\* The lines a worker writes: its records, a JSON document of another type,
\* and a log line that is no JSON.
Lines == {"ready", "heartbeat", "metrics", "other", "log"}

\* The chunks a 'data' event delivers: up to MaxChunk lines.
Chunks == UNION {[1..n -> Lines] : n \in 1..MaxChunk}

\* JSON.parse of the trimmed chunk and data.type: several lines, or a line
\* that is no JSON, make the parse throw.
MessageType(chunk) ==
    IF Len(chunk) = 1 /\ chunk[1] # "log" THEN chunk[1] ELSE "SyntaxError"

HasLine(chunk, l) == \E i \in 1..Len(chunk) : chunk[i] = l

\* A 'data' event of child c with the lines of chunk: the whole chunk goes to
\* handleProcessMessage as one message.  A worker writes ready once, and
\* heartbeats after it.
StdoutData(c, chunk) ==
    /\ children[c].live
    /\ HasLine(chunk, "ready") => ~children[c].rdy
    /\ HasLine(chunk, "heartbeat") => children[c].rdy \/ HasLine(chunk, "ready")
    /\ IF MessageType(chunk) = "ready" THEN ChildReady(c)
       ELSE IF MessageType(chunk) = "heartbeat" THEN ChildHeartbeat(c)
       ELSE /\ children' = [children EXCEPT ![c].rdy = @ \/ HasLine(chunk, "ready")]
            /\ UNCHANGED <<lim, created, db, inst, tasks, processes>>

\* Exit codes a child can end with: 0, 1, or -1 for code null (ended by a
\* signal).  SIGKILL always ends it by signal; SIGTERM is handled by the
\* worker (exit 0), or ends it by signal or with a fault.
ExitCodes(c) ==
    IF children[c].sig = "KILL" THEN {-1}
    ELSE IF children[c].sig = "TERM" THEN {0, 1, -1}
    ELSE {0, 1}

ExitMessage(code) == IF code = -1 THEN "exit_null" ELSE "exit_1"

\* The 'exit' event: the listener of setupProcessListeners runs up to its
\* updateStatus, then the listeners of waiting stopAgent calls resolve and
\* each waiting call continues, before any other callback, into
\* cleanupProcess up to its save.
ChildExit(c, code) ==
    LET a == children[c].a
        j == children[c].inst
        r == IF code = 0 THEN StatusSet(inst[j], "stopped", NoMsg)
             ELSE StatusSet(inst[j], "error", ExitMessage(code))
        ib == [inst EXCEPT ![j] = r]
        d == [db EXCEPT ![a] = StatusSaved(@, inst[j], r)]
        waiting == {t \in TaskIds : tasks[t].pc \in {"sp_wait", "sp_late"} /\ tasks[t].child = c}
        pi == processes[a]
    IN  /\ children[c].live
        /\ code \in ExitCodes(c)
        /\ children' = [children EXCEPT ![c].live = FALSE, ![c].code = code, ![c].xh = "pending"]
        /\ inst' = IF waiting # {} /\ pi # NoChild THEN CleanedInst(ib, pi) ELSE ib
        /\ db' = IF waiting # {} /\ pi # NoChild THEN CleanedDb(d, ib, pi) ELSE d
        /\ tasks' = [t \in TaskIds |->
               IF t \notin waiting THEN tasks[t]
               ELSE IF pi = NoChild THEN AfterStop(tasks[t])
               ELSE [tasks[t] EXCEPT !.pc = "sp_del"]]
        /\ UNCHANGED <<lim, created, processes>>

SchedulesRestartOnCleanExit(c) ==
    children[c].code = 0 /\ children[c].restartCount < maxRestartAttempts

\* Whether the exit handler schedules an automatic restart (lines 290-303).
SchedulesRestart(c) ==
    children[c].code # 0 /\ children[c].restartCount < maxRestartAttempts

\* The exit listener after its updateStatus: a restart timer on a non-zero
\* exit, then processes.delete(agentId).
ExitHandler(c) ==
    /\ children[c].xh = "pending"
    /\ IF SchedulesRestart(c)
       THEN /\ Len(tasks) < lim.tasks
            /\ tasks' = Append(tasks, NewTask(NoClient, "auto", children[c].a, children[c].inst, FALSE, "timer"))
       ELSE UNCHANGED tasks
    /\ processes' = [processes EXCEPT ![children[c].a] = NoChild]
    /\ children' = [children EXCEPT ![c].xh = "done", ![c].sig = "none", ![c].rdy = FALSE,
                                     ![c].status = "starting", ![c].code = 0]
    /\ UNCHANGED <<lim, created, db, inst>>

\* ---- AgentService.updateAgent / deleteAgent ----
\* updateAgent after getAgentById: rejected when the instance read is running;
\* otherwise agent.update writes the given description to the row, if the row
\* still exists.
SvcUpdate(t, d) ==
    LET a == tasks[t].a
        i == tasks[t].inst
    IN  /\ tasks[t].pc = "svc"
        /\ tasks[t].kind = "update"
        /\ inst' = [inst EXCEPT ![i] = NoInst]
        /\ IF inst[i].status = "running"
           THEN /\ tasks' = [tasks EXCEPT ![t] = Finished(@, "validation")]
                /\ UNCHANGED db
           ELSE /\ tasks' = [tasks EXCEPT ![t] = Finished(@, "ok")]
                /\ db' = IF a \in created THEN [db EXCEPT ![a].desc = d] ELSE db
        /\ UNCHANGED <<lim, created, children, processes>>

\* deleteAgent after getAgentById: rejected when the instance read is running;
\* otherwise agent.destroy removes the row.
SvcDelete(t) ==
    LET a == tasks[t].a
        i == tasks[t].inst
    IN  /\ tasks[t].pc = "svc"
        /\ tasks[t].kind = "delete"
        /\ inst' = [inst EXCEPT ![i] = NoInst]
        /\ IF inst[i].status = "running"
           THEN /\ tasks' = [tasks EXCEPT ![t] = Finished(@, "validation")]
                /\ UNCHANGED created
           ELSE /\ tasks' = [tasks EXCEPT ![t] = Finished(@, "ok")]
                /\ created' = created \ {a}
        /\ UNCHANGED <<lim, db, children, processes>>

\* ---- names: AgentService.createAgent and the rename of updateAgent ----
\* A table without the unique index on name.
NameIndexRejectsNever(n, self) == FALSE

\* The unique index on name (Agent.js 116-120, uk_agent_name): a write of name
\* n to row self is rejected when another row holds n.
NameIndexRejects(n, self) == \E a \in created \ {self} : db[a].name = n

\* Agent.findByName: the id of a row named n, or NoAgent.
findByName(n) ==
    IF \E a \in created : db[a].name = n
    THEN CHOOSE a \in created : db[a].name = n
    ELSE NoAgent

\* The error handler of app.js: the HTTP status of an outcome.
HttpStatus(res) ==
    IF res = "ok" THEN 200
    ELSE IF res = "ConflictError" THEN 409
    ELSE IF res = "validation" THEN 400
    ELSE IF res = "SequelizeUniqueConstraintError" THEN 409
    ELSE IF res = "SequelizeValidationError" THEN 400
    ELSE IF res = "NotFoundError" THEN 404
    ELSE 500

\* A create request with name n arrives: createAgent up to its findByName.
LoadCreate(cl, n) ==
    /\ Len(tasks) < lim.tasks
    /\ \A t \in TaskIds : tasks[t].client # cl
    /\ tasks' = Append(tasks, [NewTask(cl, "create", NoAgent, 0, FALSE, "cr_find") EXCEPT !.name = n])
    /\ UNCHANGED <<lim, created, db, inst, children, processes>>

\* A create request with a name, a config and a template id arrives.
LoadCreateFrom(cl, n, config, templateId) ==
    /\ Len(tasks) < lim.tasks
    /\ \A t \in TaskIds : tasks[t].client # cl
    /\ tasks' = Append(tasks, [NewTask(cl, "create", NoAgent, 0, FALSE, "cr_find")
                                  EXCEPT !.name = n, !.config = config, !.templateId = templateId])
    /\ UNCHANGED <<lim, created, db, inst, children, processes>>

\* findByName has answered: ConflictError on a row found; otherwise the
\* template is looked up when the request names one, or Agent.create is under
\* way.
CreateFind(t) ==
    /\ tasks[t].pc = "cr_find"
    /\ tasks' = [tasks EXCEPT ![t] = IF findByName(@.name) # NoAgent
                                     THEN Finished(@, "ConflictError")
                                     ELSE IF @.templateId # NoTemplate
                                     THEN [@ EXCEPT !.pc = "cr_template"]
                                     ELSE [@ EXCEPT !.pc = "cr_insert"]]
    /\ UNCHANGED <<lim, created, db, inst, children, processes>>

\* AgentTemplate.findByPk has answered: NotFoundError without a row,
\* ValidationError on an inactive template, otherwise Agent.create is under way
\* with the merged config.
CreateTemplate(t) ==
    /\ tasks[t].pc = "cr_template"
    /\ tasks' = [tasks EXCEPT ![t] = IF ~HasTemplate(@.templateId)
                                     THEN Finished(@, "NotFoundError")
                                     ELSE IF ~Template(@.templateId).isActive
                                     THEN Finished(@, "validation")
                                     ELSE [@ EXCEPT !.pc = "cr_insert"]]
    /\ UNCHANGED <<lim, created, db, inst, children, processes>>

\* Agent.create: the validators of the model run first; then the INSERT,
\* rejected by the unique index, or a stopped row under the next id.
CreateInsert(t) ==
    LET a == Cardinality(created) + 1
        n == tasks[t].name
        config == finalConfig(tasks[t].config, tasks[t].templateId)
    IN  /\ tasks[t].pc = "cr_insert"
        /\ IF ~isValidConfig(config)
           THEN /\ tasks' = [tasks EXCEPT ![t] = Finished(@, "SequelizeValidationError")]
                /\ UNCHANGED <<created, db>>
           ELSE IF NameIndexRejects(n, NoAgent)
           THEN /\ tasks' = [tasks EXCEPT ![t] = Finished(@, "SequelizeUniqueConstraintError")]
                /\ UNCHANGED <<created, db>>
           ELSE /\ Cardinality(created) < lim.agents
                /\ created' = created \cup {a}
                /\ db' = [db EXCEPT ![a] = [NewRow EXCEPT !.name = n, !.config = config]]
                /\ tasks' = [tasks EXCEPT ![t] = Finished([@ EXCEPT !.a = a], "ok")]
        /\ UNCHANGED <<lim, inst, children, processes>>

\* An update request that names agent a n arrives: updateAgent up to the end
\* of getAgentById.
LoadRename(cl, a, n) ==
    /\ a \in created
    /\ Len(tasks) < lim.tasks
    /\ \A t \in TaskIds : tasks[t].client # cl
    /\ inst' = Append(inst, [a |-> a] @@ db[a])
    /\ tasks' = Append(tasks, [NewTask(cl, "rename", a, Len(inst) + 1, FALSE, "svc") EXCEPT !.name = n])
    /\ UNCHANGED <<lim, created, db, children, processes>>

\* updateAgent after getAgentById: rejected when the instance read is running;
\* a name other than the instance's goes to findByName; the instance's own
\* name makes agent.update write nothing.
SvcRename(t) ==
    LET i == tasks[t].inst
    IN  /\ tasks[t].pc = "svc"
        /\ tasks[t].kind = "rename"
        /\ IF inst[i].status = "running"
           THEN /\ tasks' = [tasks EXCEPT ![t] = Finished(@, "validation")]
                /\ inst' = [inst EXCEPT ![i] = NoInst]
           ELSE IF tasks[t].name # inst[i].name
           THEN /\ tasks' = [tasks EXCEPT ![t].pc = "rn_find"]
                /\ UNCHANGED inst
           ELSE /\ tasks' = [tasks EXCEPT ![t] = Finished(@, "ok")]
                /\ inst' = [inst EXCEPT ![i] = NoInst]
        /\ UNCHANGED <<lim, created, db, children, processes>>

\* findByName has answered: ConflictError on a row of another id, otherwise
\* agent.update is under way.
RenameFind(t) ==
    LET found == findByName(tasks[t].name)
    IN  /\ tasks[t].pc = "rn_find"
        /\ IF found # NoAgent /\ found # tasks[t].a
           THEN /\ tasks' = [tasks EXCEPT ![t] = Finished(@, "ConflictError")]
                /\ inst' = [inst EXCEPT ![tasks[t].inst] = NoInst]
           ELSE /\ tasks' = [tasks EXCEPT ![t].pc = "rn_save"]
                /\ UNCHANGED inst
        /\ UNCHANGED <<lim, created, db, children, processes>>

\* The UPDATE of agent.update: rejected by the unique index, or the name is
\* written to the row.
RenameSave(t) ==
    LET a == tasks[t].a
        n == tasks[t].name
    IN  /\ tasks[t].pc = "rn_save"
        /\ inst' = [inst EXCEPT ![tasks[t].inst] = NoInst]
        /\ IF NameIndexRejects(n, a)
           THEN /\ tasks' = [tasks EXCEPT ![t] = Finished(@, "SequelizeUniqueConstraintError")]
                /\ UNCHANGED db
           ELSE /\ tasks' = [tasks EXCEPT ![t] = Finished(@, "ok")]
                /\ db' = IF a \in created THEN [db EXCEPT ![a].name = n] ELSE db
        /\ UNCHANGED <<lim, created, children, processes>>

\* ---- config on update and on validate-config ----
\* An update request with a config for agent a arrives: updateAgent up to the
\* end of getAgentById.
LoadUpdateConfig(cl, a, config) ==
    /\ a \in created
    /\ Len(tasks) < lim.tasks
    /\ \A t \in TaskIds : tasks[t].client # cl
    /\ inst' = Append(inst, [a |-> a] @@ db[a])
    /\ tasks' = Append(tasks, [NewTask(cl, "reconfig", a, Len(inst) + 1, FALSE, "svc") EXCEPT !.config = config])
    /\ UNCHANGED <<lim, created, db, children, processes>>

\* updateAgent after getAgentById with a config: rejected when the instance
\* read is running; the validators run on a built instance; agent.update
\* writes the config to the row, if the row still exists.
SvcUpdateConfig(t) ==
    LET a == tasks[t].a
        i == tasks[t].inst
    IN  /\ tasks[t].pc = "svc"
        /\ tasks[t].kind = "reconfig"
        /\ inst' = [inst EXCEPT ![i] = NoInst]
        /\ IF inst[i].status = "running"
           THEN /\ tasks' = [tasks EXCEPT ![t] = Finished(@, "validation")]
                /\ UNCHANGED db
           ELSE IF ~isValidConfig(tasks[t].config)
           THEN /\ tasks' = [tasks EXCEPT ![t] = Finished(@, "SequelizeValidationError")]
                /\ UNCHANGED db
           ELSE /\ tasks' = [tasks EXCEPT ![t] = Finished(@, "ok")]
                /\ db' = IF a \in created THEN [db EXCEPT ![a].config = tasks[t].config] ELSE db
        /\ UNCHANGED <<lim, created, children, processes>>

\* validateAgentConfig: the validators run on a built instance; a failure is
\* rethrown as ValidationError.
ValidateConfig(cl, config) ==
    /\ Len(tasks) < lim.tasks
    /\ \A t \in TaskIds : tasks[t].client # cl
    /\ tasks' = Append(tasks, Finished([NewTask(cl, "validate", NoAgent, 0, FALSE, "svc") EXCEPT !.config = config],
                                       IF isValidConfig(config) THEN "ok" ELSE "validation"))
    /\ UNCHANGED <<lim, created, db, inst, children, processes>>

\* ---- authentication and the ownership check ----
\* The payloads of the tokens requests come with: two ordinary users and an
\* administrator.
Tokens ==
    {[userId |-> "u1", username |-> "ann", role |-> "user"],
     [userId |-> "u2", username |-> "bob", role |-> "user"],
     [userId |-> "u3", username |-> "root", role |-> "admin"]}

Undefined == "undefined"
Null == "null"

\* The agents of the model were created by user u1.
createdBy(a) == "u1"

\* authenticateToken: req.user as built from the decoded token.
authenticateToken(decoded) ==
    [userId |-> decoded.userId, username |-> decoded.username, role |-> decoded.role]

\* obj?.name: a property the object does not have reads as undefined.
Property(obj, name) == IF name \in DOMAIN obj THEN obj[name] ELSE Undefined

\* The userId argument the controller passes to the service.
ControllerUserId(user) == IF user.role = "admin" THEN Null ELSE Property(user, "id")

\* getAgentById's ownership check, with its default parameter userId = null.
AccessDenied(a, arg) ==
    LET userId == IF arg = Undefined THEN Null ELSE arg
    IN  userId \notin {Null, Undefined} /\ createdBy(a) # userId

\* A request of kind k on agent a carrying token payload decoded, up to the
\* end of getAgentById: a denied request is answered with the error and has
\* read nothing; an admitted one holds a fresh instance of the row.
LoadAs(decoded, cl, a, k) ==
    IF AccessDenied(a, ControllerUserId(authenticateToken(decoded)))
    THEN /\ a \in created
         /\ Len(tasks) < lim.tasks
         /\ \A t \in TaskIds : tasks[t].client # cl
         /\ tasks' = Append(tasks, Finished(NewTask(cl, k, a, 0, FALSE, "svc"), "denied"))
         /\ UNCHANGED <<lim, created, db, inst, children, processes>>
    ELSE Load(cl, a, k, FALSE)

\* ---- Agent.findAvailablePort called with a range ----
\* One call findAvailablePort(startPort, endPort): the outcome is kept as a
\* returned call, with the port found or the error.
Allocate(startPort, endPort) ==
    LET port == ScanRange(startPort, endPort, PortsBetween(startPort, endPort))
        call == NewTask(NoClient, "alloc", 0, 0, FALSE, "done")
    IN  /\ Len(tasks) < lim.tasks
        /\ tasks' = Append(tasks, [call EXCEPT !.port = port,
                                               !.res = IF port = NoPort THEN "error" ELSE "ok"])
        /\ UNCHANGED <<lim, created, db, inst, children, processes>>

\* ---- ProcessManager.healthCheckAll ----
\* Time is counted in heartbeat intervals: age is the number of whole intervals
\* since the entry's lastHeartbeat, which starts at the spawn.  An age of
\* StaleAge stands for every greater age.
StaleAge == 2

\* One heartbeat interval passes.  waitForProcessReady gives up after one
\* interval (30 s), so no start is still polling an entry a second interval
\* after its spawn.
Tick ==
    /\ \E a \in created : processes[a] # NoChild /\ children[processes[a]].age < StaleAge
    /\ \A t \in TaskIds : tasks[t].pc = "st_wait" /\ processes[tasks[t].a] # NoChild
                              => children[processes[tasks[t].a]].age < 1
    /\ children' = [c \in DOMAIN children |->
                       IF \E a \in created : processes[a] = c /\ children[c].age < StaleAge
                       THEN [children[c] EXCEPT !.age = @ + 1]
                       ELSE children[c]]
    /\ UNCHANGED <<lim, created, db, inst, tasks, processes>>

\* isProcessHealthy: a registry entry, a process that signal 0 reaches, and a
\* heartbeat younger than two intervals.
isProcessHealthy(a) ==
    /\ processes[a] # NoChild
    /\ children[processes[a]].live
    /\ children[processes[a]].age < StaleAge

\* The sweep finds the entry of agent a unhealthy and calls restartAgent with
\* the entry's instance.
HealthRestart(a) ==
    /\ processes[a] # NoChild
    /\ ~isProcessHealthy(a)
    /\ Len(tasks) < lim.tasks
    /\ \A u \in TaskIds : tasks[u].kind = "health" => ~Unfinished(u)
    /\ LET r == NewTask(NoClient, "health", a, children[processes[a]].inst, FALSE, "svc")
           i == r.inst
           s == StatusSet(inst[i], "stopping", NoMsg)
       IN  IF ~canStop(i)
           THEN /\ tasks' = Append(tasks, Finished(r, "error"))
                /\ UNCHANGED <<db, inst>>
           ELSE /\ inst' = [inst EXCEPT ![i] = s]
                /\ db' = [db EXCEPT ![a] = StatusSaved(@, inst[i], s)]
                /\ tasks' = Append(tasks, [r EXCEPT !.pc = "sp_kill", !.child = processes[a]])
    /\ UNCHANGED <<lim, created, children, processes>>

\* ---- SIGTERM / SIGINT handler and ProcessManager.stopAllAgents ----
\* The handler is a task of kind sigterm; it belongs to no agent.
ShuttingDown == \E t \in TaskIds : tasks[t].kind = "sigterm"

\* process.exit(0) has run.
Exited == \E t \in TaskIds : tasks[t].kind = "sigterm" /\ tasks[t].pc = "done"

\* Lines 438-447: one stopAgent(processInfo.agent, true) call per registry
\* entry, each run up to its updateStatus('stopping').
RECURSIVE StopAll(_)
StopAll(a) ==
    IF a > NumAgents THEN <<>>
    ELSE (IF processes[a] = NoChild THEN <<>>
          ELSE <<[NewTask(NoClient, "shutdown", a, children[processes[a]].inst, TRUE, "sp_kill")
                    EXCEPT !.child = processes[a]]>>)
         \o StopAll(a + 1)

\* The supervisor receives SIGTERM or SIGINT: the handler calls stopAllAgents
\* and waits for all the stops.
Shutdown ==
    LET stops == StopAll(1)
        Entry(i) == \E a \in Agents : processes[a] # NoChild /\ children[processes[a]].inst = i
    IN  /\ ~ShuttingDown
        /\ Len(tasks) + Len(stops) < lim.tasks
        /\ tasks' = (tasks \o stops) \o <<NewTask(NoClient, "sigterm", NoAgent, 0, FALSE, "sd_wait")>>
        /\ inst' = [i \in DOMAIN inst |->
                      IF Entry(i) THEN StatusSet(inst[i], "stopping", NoMsg) ELSE inst[i]]
        /\ db' = [a \in Agents |->
                    IF processes[a] = NoChild THEN db[a]
                    ELSE LET i == children[processes[a]].inst
                         IN  StatusSaved(db[a], inst[i], StatusSet(inst[i], "stopping", NoMsg))]
        /\ UNCHANGED <<lim, created, children, processes>>

\* Lines 479-480: Promise.all has resolved, process.exit(0).
SupervisorExit(t) ==
    /\ tasks[t].kind = "sigterm"
    /\ tasks[t].pc = "sd_wait"
    /\ \A u \in TaskIds : tasks[u].kind = "shutdown" => ~Unfinished(u)
    /\ tasks' = [tasks EXCEPT ![t] = Finished(@, "ok")]
    /\ UNCHANGED <<lim, created, db, inst, children, processes>>

Next ==
    \/ CreateAgent
    \/ \E cl \in Clients, a \in Agents : Load(cl, a, "start", FALSE)
    \/ \E cl \in Clients, a \in Agents, f \in BOOLEAN : Load(cl, a, "stop", f)
    \/ \E cl \in Clients, a \in Agents : Load(cl, a, "restart", FALSE)
    \/ Tick
    \/ \E a \in Agents : HealthRestart(a)
    \/ \E t \in TaskIds : SvcStart(t)
    \/ \E t \in TaskIds : StartPortStep(t)
    \/ \E t \in TaskIds : StartSavePort(t)
    \/ \E t \in TaskIds : StartSpawn(t)
    \/ \E t \in TaskIds : WaitReady(t)
    \/ \E t \in TaskIds : ReadyTimeout(t)
    \/ \E t \in TaskIds : CatchDelete(t)
    \/ \E t \in TaskIds : SvcStop(t)
    \/ \E t \in TaskIds : StopKill(t)
    \/ \E t \in TaskIds : GraceTimeout(t)
    \/ \E t \in TaskIds : StopDelete(t)
    \/ \E t \in TaskIds : SvcRestart(t)
    \/ \E t \in TaskIds : AutoRestartTimer(t)
    \/ \E t \in TaskIds : RestartDelay(t)
    \/ \E t \in TaskIds : RestartStart(t)
    \/ \E c \in ChildIds : ChildReady(c)
    \/ \E c \in ChildIds : ChildHeartbeat(c)
    \/ \E c \in ChildIds, code \in {0, 1, -1} : ChildExit(c, code)
    \/ \E c \in ChildIds : ExitHandler(c)

Spec == Init /\ [][Next]_vars

\* ---- SpecOps: API requests, sweeps and child events around a running agent ----
InitOps ==
    /\ Running
    /\ lim = Limits(1, OpsTasks, OpsChildren)

NextOps ==
    \/ \E cl \in Clients, a \in Agents : Load(cl, a, "start", FALSE)
    \/ \E cl \in Clients, a \in Agents, f \in BOOLEAN : Load(cl, a, "stop", f)
    \/ \E cl \in Clients, a \in Agents : Load(cl, a, "restart", FALSE)
    \/ Tick
    \/ \E a \in Agents : HealthRestart(a)
    \/ \E t \in TaskIds : SvcStart(t)
    \/ \E t \in TaskIds : StartPortStep(t)
    \/ \E t \in TaskIds : StartSavePort(t)
    \/ \E t \in TaskIds : StartSpawn(t)
    \/ \E t \in TaskIds : WaitReady(t)
    \/ \E t \in TaskIds : ReadyTimeout(t)
    \/ \E t \in TaskIds : CatchDelete(t)
    \/ \E t \in TaskIds : SvcStop(t)
    \/ \E t \in TaskIds : StopKill(t)
    \/ \E t \in TaskIds : GraceTimeout(t)
    \/ \E t \in TaskIds : StopDelete(t)
    \/ \E t \in TaskIds : SvcRestart(t)
    \/ \E t \in TaskIds : AutoRestartTimer(t)
    \/ \E t \in TaskIds : RestartDelay(t)
    \/ \E t \in TaskIds : RestartStart(t)
    \/ \E c \in ChildIds : ChildReady(c)
    \/ \E c \in ChildIds : ChildHeartbeat(c)
    \/ \E c \in ChildIds, code \in {0, 1, -1} : ChildExit(c, code)
    \/ \E c \in ChildIds : ExitHandler(c)

SpecOps == InitOps /\ [][NextOps]_vars

\* ---- SpecCrash: a running agent whose children exit, with no API request
\* and no sweep ----
InitCrash ==
    /\ Running
    /\ lim = Limits(1, CrashTasks, CrashChildren)

NextCrash ==
    \/ \E t \in TaskIds : StartPortStep(t)
    \/ \E t \in TaskIds : StartSavePort(t)
    \/ \E t \in TaskIds : StartSpawn(t)
    \/ \E t \in TaskIds : WaitReady(t)
    \/ \E t \in TaskIds : ReadyTimeout(t)
    \/ \E t \in TaskIds : CatchDelete(t)
    \/ \E t \in TaskIds : AutoRestartTimer(t)
    \/ \E t \in TaskIds : RestartDelay(t)
    \/ \E t \in TaskIds : RestartStart(t)
    \/ \E c \in ChildIds : ChildReady(c)
    \/ \E c \in ChildIds : ChildHeartbeat(c)
    \/ \E c \in ChildIds, code \in {0, 1} : ChildExit(c, code)
    \/ \E c \in ChildIds : ExitHandler(c)

SpecCrash == InitCrash /\ [][NextCrash]_vars

\* ---- SpecGate: stop requests, with and without force, on a running agent,
\* with the child events and automatic restarts that follow them ----
InitGate ==
    /\ Running
    /\ lim = Limits(1, GateTasks, GateChildren)

NextGate ==
    \/ \E cl \in Clients, a \in Agents, f \in BOOLEAN : Load(cl, a, "stop", f)
    \/ \E t \in TaskIds : SvcStop(t)
    \/ \E t \in TaskIds : StopKill(t)
    \/ \E t \in TaskIds : GraceTimeout(t)
    \/ \E t \in TaskIds : StopDelete(t)
    \/ \E t \in TaskIds : StartPortStep(t)
    \/ \E t \in TaskIds : StartSavePort(t)
    \/ \E t \in TaskIds : StartSpawn(t)
    \/ \E t \in TaskIds : WaitReady(t)
    \/ \E t \in TaskIds : ReadyTimeout(t)
    \/ \E t \in TaskIds : CatchDelete(t)
    \/ \E t \in TaskIds : AutoRestartTimer(t)
    \/ \E t \in TaskIds : RestartDelay(t)
    \/ \E t \in TaskIds : RestartStart(t)
    \/ \E c \in ChildIds : ChildReady(c)
    \/ \E c \in ChildIds : ChildHeartbeat(c)
    \/ \E c \in ChildIds, code \in {0, 1, -1} : ChildExit(c, code)
    \/ \E c \in ChildIds : ExitHandler(c)

SpecGate == InitGate /\ [][NextGate]_vars

\* ---- SpecStop: graceful stop requests on a running agent whose worker
\* answers SIGTERM with exit code 0.  The event loop runs every continuation
\* that is ready, and a worker that got SIGTERM exits. ----
InitStop ==
    /\ Running
    /\ lim = Limits(1, StopTasks, 1)

NextStop ==
    \/ \E cl \in Clients, a \in Agents : Load(cl, a, "stop", FALSE)
    \/ \E t \in TaskIds : SvcStop(t)
    \/ \E t \in TaskIds : StopKill(t)
    \/ \E t \in TaskIds : GraceTimeout(t)
    \/ \E t \in TaskIds : StopDelete(t)
    \/ \E c \in ChildIds : ChildHeartbeat(c)
    \/ \E c \in ChildIds : ChildExit(c, 0)
    \/ \E c \in ChildIds : ExitHandler(c)

SpecStop ==
    /\ InitStop
    /\ [][NextStop]_vars
    /\ WF_vars(\E t \in TaskIds : SvcStop(t))
    /\ WF_vars(\E t \in TaskIds : StopKill(t))
    /\ WF_vars(\E t \in TaskIds : StopDelete(t))
    /\ WF_vars(\E c \in ChildIds : children[c].sig = "TERM" /\ ChildExit(c, 0))
    /\ WF_vars(\E c \in ChildIds : ExitHandler(c))

\* ---- SpecGrace: graceful stop requests on a running agent whose worker may
\* ignore SIGTERM.  The event loop runs every continuation and timer that is
\* ready; a worker that got SIGKILL exits, one that got SIGTERM need not. ----
InitGrace ==
    /\ Running
    /\ lim = Limits(1, GraceTasks, 1)

NextGrace ==
    \/ \E cl \in Clients, a \in Agents : Load(cl, a, "stop", FALSE)
    \/ \E t \in TaskIds : SvcStop(t)
    \/ \E t \in TaskIds : StopKill(t)
    \/ \E t \in TaskIds : GraceTimeout(t)
    \/ \E t \in TaskIds : StopDelete(t)
    \/ \E c \in ChildIds : ChildHeartbeat(c)
    \/ \E c \in ChildIds : ChildExit(c, 0)
    \/ \E c \in ChildIds : ExitHandler(c)

SpecGrace ==
    /\ InitGrace
    /\ [][NextGrace]_vars
    /\ WF_vars(\E t \in TaskIds : SvcStop(t))
    /\ WF_vars(\E t \in TaskIds : StopKill(t))
    /\ WF_vars(\E t \in TaskIds : GraceTimeout(t))
    /\ WF_vars(\E t \in TaskIds : StopDelete(t))
    /\ WF_vars(\E c \in ChildIds : children[c].sig = "KILL" /\ ChildExit(c, -1))
    /\ WF_vars(\E c \in ChildIds : ExitHandler(c))

\* ---- SpecRestart: restart requests on a running agent, with the child
\* events and automatic restarts that follow them ----
InitRestart ==
    /\ Running
    /\ lim = Limits(1, RestartTasks, RestartChildren)

NextRestart ==
    \/ \E cl \in Clients, a \in Agents : Load(cl, a, "restart", FALSE)
    \/ \E t \in TaskIds : SvcRestart(t)
    \/ \E t \in TaskIds : StopKill(t)
    \/ \E t \in TaskIds : GraceTimeout(t)
    \/ \E t \in TaskIds : StopDelete(t)
    \/ \E t \in TaskIds : StartPortStep(t)
    \/ \E t \in TaskIds : StartSavePort(t)
    \/ \E t \in TaskIds : StartSpawn(t)
    \/ \E t \in TaskIds : WaitReady(t)
    \/ \E t \in TaskIds : ReadyTimeout(t)
    \/ \E t \in TaskIds : CatchDelete(t)
    \/ \E t \in TaskIds : AutoRestartTimer(t)
    \/ \E t \in TaskIds : RestartDelay(t)
    \/ \E t \in TaskIds : RestartStart(t)
    \/ \E c \in ChildIds : ChildReady(c)
    \/ \E c \in ChildIds : ChildHeartbeat(c)
    \/ \E c \in ChildIds, code \in {0, 1, -1} : ChildExit(c, code)
    \/ \E c \in ChildIds : ExitHandler(c)

SpecRestart == InitRestart /\ [][NextRestart]_vars

\* ---- SpecErr: the crash scenario of SpecCrash with the children's 'error'
\* events ----
NextErr ==
    \/ \E t \in TaskIds : StartPortStep(t)
    \/ \E t \in TaskIds : StartSavePort(t)
    \/ \E t \in TaskIds : StartSpawn(t)
    \/ \E t \in TaskIds : WaitReady(t)
    \/ \E t \in TaskIds : ReadyTimeout(t)
    \/ \E t \in TaskIds : CatchDelete(t)
    \/ \E t \in TaskIds : AutoRestartTimer(t)
    \/ \E t \in TaskIds : RestartDelay(t)
    \/ \E t \in TaskIds : RestartStart(t)
    \/ \E c \in ChildIds : ChildReady(c)
    \/ \E c \in ChildIds : ChildHeartbeat(c)
    \/ \E c \in ChildIds : ChildError(c)
    \/ \E c \in ChildIds, code \in {0, 1} : ChildExit(c, code)
    \/ \E c \in ChildIds : ExitHandler(c)

SpecErr == InitCrash /\ [][NextErr]_vars

\* ---- SpecHealth: a running agent whose worker never sends a heartbeat, the
\* sweeps of the monitor and the restarts they start, with no API request; a
\* worker ends only on the monitor's SIGTERM, with exit code 0 ----
InitHealth ==
    /\ Running
    /\ lim = Limits(1, HealthTasks, HealthChildren)

NextHealth ==
    \/ Tick
    \/ \E a \in Agents : HealthRestart(a)
    \/ \E t \in TaskIds : StopKill(t)
    \/ \E t \in TaskIds : GraceTimeout(t)
    \/ \E t \in TaskIds : StopDelete(t)
    \/ \E t \in TaskIds : RestartDelay(t)
    \/ \E t \in TaskIds : RestartStart(t)
    \/ \E t \in TaskIds : StartPortStep(t)
    \/ \E t \in TaskIds : StartSavePort(t)
    \/ \E t \in TaskIds : StartSpawn(t)
    \/ \E t \in TaskIds : WaitReady(t)
    \/ \E t \in TaskIds : ReadyTimeout(t)
    \/ \E t \in TaskIds : CatchDelete(t)
    \/ \E c \in ChildIds : ChildReady(c)
    \/ \E c \in ChildIds : children[c].sig = "TERM" /\ ChildExit(c, 0)
    \/ \E c \in ChildIds : ExitHandler(c)

SpecHealth == InitHealth /\ [][NextHealth]_vars

\* ---- SpecShutdown: a supervisor with one running agent that receives
\* SIGTERM while start requests arrive; nothing runs after process.exit ----
InitShutdown ==
    /\ Running
    /\ lim = Limits(NumAgents, ShutTasks, ShutChildren)

NextShutdown ==
    \/ ~Exited /\ CreateAgent
    \/ ~Exited /\ \E cl \in Clients, a \in Agents : Load(cl, a, "start", FALSE)
    \/ ~Exited /\ Shutdown
    \/ \E t \in TaskIds : SupervisorExit(t)
    \/ ~Exited /\ \E t \in TaskIds : SvcStart(t)
    \/ ~Exited /\ \E t \in TaskIds : StartPortStep(t)
    \/ ~Exited /\ \E t \in TaskIds : StartSavePort(t)
    \/ ~Exited /\ \E t \in TaskIds : StartSpawn(t)
    \/ ~Exited /\ \E t \in TaskIds : WaitReady(t)
    \/ ~Exited /\ \E t \in TaskIds : StopKill(t)
    \/ ~Exited /\ \E t \in TaskIds : StopDelete(t)
    \/ ~Exited /\ \E c \in ChildIds : ChildReady(c)
    \/ ~Exited /\ \E c \in ChildIds : children[c].sig = "KILL" /\ ChildExit(c, -1)
    \/ ~Exited /\ \E t \in TaskIds : AutoRestartTimer(t)
    \/ ~Exited /\ \E t \in TaskIds : RestartDelay(t)
    \/ ~Exited /\ \E t \in TaskIds : RestartStart(t)
    \/ ~Exited /\ \E c \in ChildIds : ExitHandler(c)

SpecShutdown == InitShutdown /\ [][NextShutdown]_vars

\* ---- SpecNames: create and rename requests on a supervisor that starts no
\* agent ----
InitNames ==
    /\ Fresh
    /\ lim = Limits(NumAgents, NameTasks, 0)

NextNames ==
    \/ \E cl \in Clients, n \in Names : LoadCreate(cl, n)
    \/ \E t \in TaskIds : CreateFind(t)
    \/ \E t \in TaskIds : CreateInsert(t)
    \/ \E cl \in Clients, a \in Agents, n \in Names : LoadRename(cl, a, n)
    \/ \E t \in TaskIds : SvcRename(t)
    \/ \E t \in TaskIds : RenameFind(t)
    \/ \E t \in TaskIds : RenameSave(t)

SpecNames == InitNames /\ [][NextNames]_vars

\* ---- SpecMerge: create requests with and without a template ----
\* The configs of the requests: a model or none, and under limits nothing, a
\* scalar or an object with any of its keys.
MergeConfigs ==
    {[k \in Keys |-> CASE k = "model" -> m [] k = "limits" -> l [] OTHER -> NoValue] :
        m \in {NoValue, Scalar(2)},
        l \in {NoValue, Scalar(5)} \cup {Object(f) : f \in [SubKeys -> {Undef, 7}]}}

InitMerge ==
    /\ Fresh
    /\ lim = Limits(NumAgents, MergeTasks, 0)

NextMerge ==
    \/ \E cl \in Clients, n \in Names, config \in MergeConfigs, id \in TemplateIds \cup {NoTemplate} :
          LoadCreateFrom(cl, n, config, id)
    \/ \E t \in TaskIds : CreateFind(t)
    \/ \E t \in TaskIds : CreateTemplate(t)
    \/ \E t \in TaskIds : CreateInsert(t)

SpecMerge == InitMerge /\ [][NextMerge]_vars

\* ---- SpecConfig: create, update and validate-config requests whose configs
\* carry max_tokens and port at and around their limits ----
LimitConfigs ==
    {[k \in Keys |-> CASE k = "model" -> Scalar(1) [] k = "max_tokens" -> m [] k = "port" -> q
                       [] OTHER -> NoValue] :
        m \in {NoValue, Scalar(0), Scalar(1), Scalar(32000), Scalar(32001)},
        q \in {NoValue, Scalar(1023), Scalar(1024), Scalar(65535), Scalar(65536)}}

InitConfig ==
    /\ Fresh
    /\ lim = Limits(1, ConfigTasks, 0)

NextConfig ==
    \/ \E cl \in Clients, n \in Names, config \in LimitConfigs : LoadCreateFrom(cl, n, config, NoTemplate)
    \/ \E t \in TaskIds : CreateFind(t)
    \/ \E t \in TaskIds : CreateInsert(t)
    \/ \E cl \in Clients, a \in Agents, config \in LimitConfigs : LoadUpdateConfig(cl, a, config)
    \/ \E t \in TaskIds : SvcUpdateConfig(t)
    \/ \E cl \in Clients, config \in LimitConfigs : ValidateConfig(cl, config)

SpecConfig == InitConfig /\ [][NextConfig]_vars

\* ---- SpecAuto: the crash scenario of SpecCrash under the event loop's
\* scheduling: every timer that was set fires, every continuation that is
\* ready runs, and a live worker sends its ready record.  Exits and the ready
\* timeout may or may not happen. ----
SpecAuto ==
    /\ InitCrash
    /\ [][NextCrash]_vars
    /\ WF_vars(\E t \in TaskIds : StartPortStep(t))
    /\ WF_vars(\E t \in TaskIds : StartSavePort(t))
    /\ WF_vars(\E t \in TaskIds : StartSpawn(t))
    /\ WF_vars(\E t \in TaskIds : WaitReady(t))
    /\ WF_vars(\E t \in TaskIds : CatchDelete(t))
    /\ WF_vars(\E t \in TaskIds : AutoRestartTimer(t))
    /\ WF_vars(\E t \in TaskIds : RestartDelay(t))
    /\ WF_vars(\E t \in TaskIds : RestartStart(t))
    /\ WF_vars(\E c \in ChildIds : ChildReady(c))
    /\ WF_vars(\E c \in ChildIds : ExitHandler(c))

\* ---- SpecEdit: update, delete and graceful stop requests on a running
\* agent whose worker exits with code 0 on SIGTERM ----
InitEdit ==
    /\ Running
    /\ lim = Limits(1, EditTasks, 1)

NextEdit ==
    \/ \E cl \in Clients, a \in Agents : Load(cl, a, "stop", FALSE)
    \/ \E cl \in Clients, a \in Agents : Load(cl, a, "update", FALSE)
    \/ \E cl \in Clients, a \in Agents : Load(cl, a, "delete", FALSE)
    \/ \E t \in TaskIds : SvcStop(t)
    \/ \E t \in TaskIds, d \in Descriptions : SvcUpdate(t, d)
    \/ \E t \in TaskIds : SvcDelete(t)
    \/ \E t \in TaskIds : StopKill(t)
    \/ \E t \in TaskIds : GraceTimeout(t)
    \/ \E t \in TaskIds : StopDelete(t)
    \/ \E c \in ChildIds : children[c].sig = "TERM" /\ ChildExit(c, 0)
    \/ \E c \in ChildIds : ExitHandler(c)

SpecEdit == InitEdit /\ [][NextEdit]_vars

\* ---- SpecAuth: stop, update and delete requests of the owner, another user
\* and an administrator on a running agent ----
InitAuth ==
    /\ Running
    /\ lim = Limits(1, AuthTasks, 1)

NextAuth ==
    \/ \E decoded \in Tokens, cl \in Clients, a \in Agents : LoadAs(decoded, cl, a, "stop")
    \/ \E decoded \in Tokens, cl \in Clients, a \in Agents : LoadAs(decoded, cl, a, "update")
    \/ \E decoded \in Tokens, cl \in Clients, a \in Agents : LoadAs(decoded, cl, a, "delete")
    \/ \E t \in TaskIds : SvcStop(t)
    \/ \E t \in TaskIds, d \in Descriptions : SvcUpdate(t, d)
    \/ \E t \in TaskIds : SvcDelete(t)
    \/ \E t \in TaskIds : StopKill(t)
    \/ \E t \in TaskIds : GraceTimeout(t)
    \/ \E t \in TaskIds : StopDelete(t)
    \/ \E c \in ChildIds : children[c].sig = "TERM" /\ ChildExit(c, 0)
    \/ \E c \in ChildIds : ExitHandler(c)

SpecAuth == InitAuth /\ [][NextAuth]_vars

\* ---- SpecAlloc: the port allocator on tables whose rows hold any
\* assignment of distinct ports, called with any range ----
RangeEnds == StartPort..(EndPort + 1)

InitAlloc ==
    /\ lim = Limits(NumAgents, AllocCalls, 0)
    /\ created = Agents
    /\ \E ports \in [Agents -> RangeEnds \cup {NoPort}] :
          /\ \A a, b \in Agents : a # b /\ ports[a] # NoPort => ports[a] # ports[b]
          /\ db = [a \in Agents |-> [NewRow EXCEPT !.port = ports[a], !.name = a]]
    /\ inst = <<>>
    /\ tasks = <<>>
    /\ children = <<>>
    /\ processes = [a \in Agents |-> NoChild]

NextAlloc ==
    \/ \E startPort, endPort \in RangeEnds : Allocate(startPort, endPort)

SpecAlloc == InitAlloc /\ [][NextAlloc]_vars

\* ---- SpecCount: a running agent that crashes and is restarted
\* automatically, and clients that stop and start it one request at a time;
\* a child ends with code 0 on SIGTERM and crashes with code 1 otherwise ----
InitCount ==
    /\ Running
    /\ lim = Limits(1, CountTasks, CountChildren)

\* A client that sends its request once every earlier call has returned and
\* no exit listener is mid-way.
LoadIdle(cl, a, k) ==
    /\ \A u \in TaskIds : ~Unfinished(u)
    /\ \A c \in ChildIds : children[c].xh # "pending"
    /\ Load(cl, a, k, FALSE)

NextCount ==
    \/ \E cl \in Clients, a \in Agents : LoadIdle(cl, a, "stop")
    \/ \E cl \in Clients, a \in Agents : LoadIdle(cl, a, "start")
    \/ \E t \in TaskIds : SvcStop(t)
    \/ \E t \in TaskIds : SvcStart(t)
    \/ \E t \in TaskIds : StopKill(t)
    \/ \E t \in TaskIds : GraceTimeout(t)
    \/ \E t \in TaskIds : StopDelete(t)
    \/ \E t \in TaskIds : StartPortStep(t)
    \/ \E t \in TaskIds : StartSavePort(t)
    \/ \E t \in TaskIds : StartSpawn(t)
    \/ \E t \in TaskIds : WaitReady(t)
    \/ \E t \in TaskIds : AutoRestartTimer(t)
    \/ \E t \in TaskIds : RestartDelay(t)
    \/ \E t \in TaskIds : RestartStart(t)
    \/ \E c \in ChildIds : ChildReady(c)
    \/ \E c \in ChildIds : ChildExit(c, IF children[c].sig = "TERM" THEN 0 ELSE 1)
    \/ \E c \in ChildIds : ExitHandler(c)

SpecCount == InitCount /\ [][NextCount]_vars

\* ---- SpecStdout: starts of one agent whose workers' stdout arrives in
\* chunks of one or more lines ----
InitStdout ==
    /\ Fresh
    /\ lim = Limits(1, StdoutTasks, StdoutChildren)

NextStdout ==
    \/ CreateAgent
    \/ \E cl \in Clients, a \in Agents : LoadIdle(cl, a, "start")
    \/ \E t \in TaskIds : SvcStart(t)
    \/ \E t \in TaskIds : StartPortStep(t)
    \/ \E t \in TaskIds : StartSavePort(t)
    \/ \E t \in TaskIds : StartSpawn(t)
    \/ \E t \in TaskIds : WaitReady(t)
    \/ \E t \in TaskIds : ReadyTimeout(t)
    \/ \E t \in TaskIds : CatchDelete(t)
    \/ \E c \in ChildIds, chunk \in Chunks : StdoutData(c, chunk)

SpecStdout == InitStdout /\ [][NextStdout]_vars

\* ---- SpecFull: a range of one port held by a running agent, a second
\* agent, and clients that start and stop them one request at a time; a
\* worker reports ready and ends with code 0 on SIGTERM ----
InitFull ==
    /\ Running
    /\ lim = [Limits(2, FullTasks, FullChildren) EXCEPT !.ports = 1]

NextFull ==
    \/ CreateAgent
    \/ \E cl \in Clients, a \in Agents : LoadIdle(cl, a, "start")
    \/ \E cl \in Clients, a \in Agents : LoadIdle(cl, a, "stop")
    \/ \E t \in TaskIds : SvcStart(t)
    \/ \E t \in TaskIds : SvcStop(t)
    \/ \E t \in TaskIds : StartPortStep(t)
    \/ \E t \in TaskIds : StartSavePort(t)
    \/ \E t \in TaskIds : StartSpawn(t)
    \/ \E t \in TaskIds : WaitReady(t)
    \/ \E t \in TaskIds : StopKill(t)
    \/ \E t \in TaskIds : GraceTimeout(t)
    \/ \E t \in TaskIds : StopDelete(t)
    \/ \E c \in ChildIds : ChildReady(c)
    \/ \E c \in ChildIds : children[c].sig = "TERM" /\ ChildExit(c, 0)
    \/ \E c \in ChildIds : ExitHandler(c)

SpecFull == InitFull /\ [][NextFull]_vars

\* ---- rows and children of an agent ----
Active(a) == db[a].status \in ActiveStatuses

LiveChildren(a) == {c \in ChildIds : children[c].a = a /\ children[c].live}

\* Nothing is in flight for agent a: no task, no live child, no exit handler
\* between its two halves.
Quiescent(a) ==
    /\ \A t \in TaskIds : tasks[t].a = a => ~Unfinished(t)
    /\ \A c \in ChildIds : children[c].a = a => ~children[c].live /\ children[c].xh # "pending"

\* C1: in every reachable state no two distinct agent rows hold the same
\* non-null port.
C1_PortsUnique ==
    \A a, b \in created :
        a # b /\ db[a].port # NoPort => db[a].port # db[b].port

\* C1 witness: a save of a port was rejected by the unique index while the
\* other row holds a port, and two rows hold ports at the same time.
C1_Witness ==
    \E a, b \in created :
        /\ a # b
        /\ db[a].err = "port_taken"
        /\ db[b].port \in Ports

\* C2: for every agent at rest, the persisted port is non-null if and only
\* if the persisted status is starting, running or stopping.
C2_PortIffActive ==
    \A a \in created : Quiescent(a) => (db[a].port # NoPort <=> Active(a))

\* C3: for every agent at rest, the persisted processId is non-null if and
\* only if the persisted status is starting, running or stopping.
C3_PidIffActive ==
    \A a \in created : Quiescent(a) => (db[a].pid # NoPid <=> Active(a))

\* C6: at no time do two live child processes exist for the same agent.
C6_OneLiveChild == \A a \in Agents : Cardinality(LiveChildren(a)) <= 1

\* ---- C4 ----
\* The child of agent a has just exited with code 0 after the SIGTERM of a
\* non-force stop request that waits on it; the child had reported ready.
CleanStopExit(a) ==
    \E c \in ChildIds, t \in TaskIds :
        /\ children[c].a = a
        /\ children[c].xh = "pending"
        /\ children[c].code = 0
        /\ children[c].sig = "TERM"
        /\ children[c].rdy
        /\ tasks[t].kind = "stop"
        /\ ~tasks[t].force
        /\ tasks[t].a = a
        /\ tasks[t].pc = "sp_del"
        /\ tasks[t].child = c

Settled(a) ==
    /\ db[a].status = "stopped"
    /\ db[a].port = NoPort
    /\ db[a].pid = NoPid
    /\ processes[a] = NoChild

\* C4: after a non-force stop was accepted for a running agent and its child
\* exited with code 0 on SIGTERM, the agent eventually is stopped with port
\* and processId null and no registry entry, and stays so while no start
\* intent is made (SpecStop makes none).
C4_CleanStopSettles == \A a \in Agents : CleanStopExit(a) ~> [](Settled(a))

\* ---- C5 ----
\* C5: automatic restarts are bounded: no automatic restart is scheduled for
\* an agent whose restartCount has reached maxRestartAttempts.
C5_AutoRestartsBounded ==
    \A t \in TaskIds :
        tasks[t].kind = "auto" /\ tasks[t].pc = "timer"
            => db[tasks[t].a].rc < maxRestartAttempts

\* ---- C7 ----
\* The step of task t from the service gate of a start request.
StartDecided(t) ==
    /\ t \in TaskIds
    /\ tasks[t].kind = "start"
    /\ tasks[t].pc = "svc"
    /\ tasks'[t].pc # "svc"

\* C7: a start decided while an earlier start of the agent is in effect (the
\* row is starting or running, or the registry has an entry) is rejected,
\* spawns no child and leaves the registry, the children and the row as
\* they are.
C7_SecondStartRejected ==
    [][\A t \in TaskIds :
          (/\ StartDecided(t)
           /\ \/ db[tasks[t].a].status \in {"starting", "running"}
              \/ processes[tasks[t].a] # NoChild)
          => /\ tasks'[t].res \in {"validation", "error"}
             /\ children' = children
             /\ processes' = processes
             /\ db' = db]_vars

\* ---- C8 ----
\* The step of task t from the service gate of a stop request.
StopDecided(t) ==
    /\ t \in TaskIds
    /\ tasks[t].kind = "stop"
    /\ tasks[t].pc = "svc"
    /\ tasks'[t].pc # "svc"

StopRejected(t) ==
    /\ tasks'[t].res = "validation"
    /\ db' = db
    /\ children' = children
    /\ processes' = processes

\* C8 as stated: without force a stop is accepted exactly from running,
\* starting and stopping and rejected with a validation error, state
\* unchanged, from stopped and error; with force it is accepted from error too.
C8_StopGate ==
    [][\A t \in TaskIds : StopDecided(t) =>
          LET st == inst[tasks[t].inst].status
          IN  /\ ~tasks[t].force /\ st \in {"running", "starting", "stopping"}
                    => tasks'[t].res # "validation"
              /\ ~tasks[t].force /\ st \in {"stopped", "error"} => StopRejected(t)
              /\ tasks[t].force /\ st = "error" => tasks'[t].res # "validation"]_vars

\* C8 amended: without force a stop is accepted exactly from running and
\* starting and rejected with a validation error, state unchanged, from
\* stopping, stopped and error; with force it is accepted from every status.
C8_StopGateAmended ==
    [][\A t \in TaskIds : StopDecided(t) =>
          LET st == inst[tasks[t].inst].status
          IN  /\ ~tasks[t].force /\ st \in {"running", "starting"}
                    => tasks'[t].res # "validation"
              /\ ~tasks[t].force /\ st \in {"stopping", "stopped", "error"} => StopRejected(t)
              /\ tasks[t].force => tasks'[t].res # "validation"]_vars

\* C8 witness: a non-force stop read the row as stopping and was rejected
\* with a validation error while the stop before it is still in progress.
C8_Witness ==
    \E t, u \in TaskIds :
        /\ tasks[t].kind = "stop"
        /\ ~tasks[t].force
        /\ tasks[t].res = "validation"
        /\ db[tasks[t].a].status = "stopping"
        /\ tasks[u].kind = "stop"
        /\ tasks[u].a = tasks[t].a
        /\ tasks[u].pc \in {"sp_kill", "sp_wait", "sp_late", "sp_del"}

\* ---- C9 ----
\* Task t is a force stop of an agent on which an earlier force stop has
\* returned success and t holds the row as it is now; no other request, sweep or
\* automatic restart was made for the agent since it was started.
SecondForceStop(t) ==
    /\ StopDecided(t)
    /\ tasks[t].force
    /\ inst[tasks[t].inst] = [a |-> tasks[t].a] @@ db[tasks[t].a]
    /\ \E u \in TaskIds \ {t} :
          /\ tasks[u].kind = "stop"
          /\ tasks[u].force
          /\ tasks[u].a = tasks[t].a
          /\ tasks[u].res = "ok"
    /\ \A u \in TaskIds \ {1} : tasks[u].a = tasks[t].a => tasks[u].kind = "stop" /\ tasks[u].force
    /\ \A u \in TaskIds \ {t} : ~Unfinished(u)

\* C9: force stop is idempotent: a second force stop returns success, sends
\* no signal and leaves the row and the registry as the first left them.
C9_ForceStopIdempotent ==
    [][\A t \in TaskIds : SecondForceStop(t) =>
          /\ tasks'[t].res = "ok"
          /\ children' = children
          /\ processes' = processes
          /\ db' = db]_vars

\* ---- C10 ----
\* Child c was sent SIGKILL or SIGTERM by a stop request.
StopRequested(c) ==
    /\ children[c].sig # "none"
    /\ \E u \in TaskIds :
          /\ tasks[u].kind = "stop"
          /\ tasks[u].a = children[c].a
          /\ tasks[u].child = c \/ tasks[u].res = "ok"

\* C10: the exit of a child that was sent SIGKILL or SIGTERM by a stop
\* request is not handled as a crash: it does not persist status error and
\* its exit handler schedules no automatic restart.
C10_StopExitNotCrash ==
    [][\A c \in ChildIds : StopRequested(c) =>
          /\ children[c].live /\ ~children'[c].live
                => db'[children[c].a].status # "error"
          /\ children[c].xh = "pending" /\ children'[c].xh = "done"
                => tasks' = tasks]_vars

\* ---- C11 ----
\* Stop request t has sent SIGTERM to a live child and waits for its exit.
GracefulWait(t) ==
    /\ t \in TaskIds
    /\ tasks[t].kind = "stop"
    /\ tasks[t].pc = "sp_wait"
    /\ children[tasks[t].child].live

StopReturned(t) ==
    /\ t \in TaskIds
    /\ tasks[t].pc = "done"
    /\ db[tasks[t].a].status # "stopping"

\* C11: a non-force stop that waits for its child, also one that ignores
\* SIGTERM, eventually returns, with the agent no longer in status stopping.
C11_GracefulStopReturns ==
    \A t \in 1..GraceTasks :
        GracefulWait(t) ~> StopReturned(t)

\* ---- C12 ----
\* C12: when a start has failed on the ready timeout (the row is error with
\* the timeout message), no child of that agent is left alive.
C12_ReadyTimeoutKills ==
    \A a \in created :
        db[a].status = "error" /\ db[a].err = "ready_timeout" => LiveChildren(a) = {}

\* ---- C13 ----
\* The row and the registry of agent a are as a start request needs them.
StartWouldPass(a) ==
    /\ db[a].status \in {"stopped", "error"}
    /\ processes[a] = NoChild

\* C13: a service restart behaves as stop followed by start: when it has
\* stopped the running agent itself (its instance went through stopping),
\* its stop half is over and the row (stopped) and the registry are as after
\* a clean stop, its start half is not refused but goes on to start the agent.
C13_RestartIsStopStart ==
    [][\A t \in TaskIds :
          (/\ tasks[t].kind = "restart"
           /\ tasks[t].pc = "r_start"
           /\ tasks'[t].pc # "r_start"
           /\ inst[tasks[t].inst].status = "stopping"
           /\ db[tasks[t].a].status = "stopped"
           /\ StartWouldPass(tasks[t].a))
          => tasks'[t].pc # "done"]_vars

\* ---- C14 ----
\* The step of task t from the service gate of a restart request.
RestartDecided(t) ==
    /\ t \in TaskIds
    /\ tasks[t].kind = "restart"
    /\ tasks[t].pc = "svc"
    /\ tasks'[t].pc # "svc"

\* C14: a restart is rejected with a validation error, leaving the row and
\* the registry unchanged, when the status is stopped, starting or stopping,
\* and passes the gate when it is running or error.
C14_RestartGate ==
    [][\A t \in TaskIds : RestartDecided(t) =>
          LET st == inst[tasks[t].inst].status
          IN  /\ st \in {"stopped", "starting", "stopping"}
                    => /\ tasks'[t].res = "validation"
                       /\ db' = db
                       /\ processes' = processes
                       /\ children' = children
              /\ st \in {"running", "error"} => tasks'[t].res # "validation"]_vars

\* C14 witness: a restart request was rejected with a validation error while
\* the stop half of an earlier restart is in progress and the row is stopping.
C14_Witness ==
    \E t, u \in TaskIds :
        /\ tasks[t].kind = "restart"
        /\ tasks[t].res = "validation"
        /\ tasks[u].kind = "restart"
        /\ tasks[u].a = tasks[t].a
        /\ tasks[u].pc \in {"sp_kill", "sp_wait", "sp_late", "sp_del"}
        /\ db[tasks[t].a].status = "stopping"

\* ---- C15 ----
RestartKinds == {"restart", "auto", "health"}

\* The child of agent a spawned last before child c, NoChild when c is its first.
PrevChild(a, c) ==
    LET before == {k \in ChildIds : k < c /\ children[k].a = a}
    IN  IF before = {} THEN NoChild ELSE CHOOSE k \in before : \A m \in before : m <= k

\* C15: a restart that succeeds leaves the agent on a port different from the
\* one it held before the restart: when the startAgent of a manual, automatic
\* or health restart returns, the persisted port is not the port the agent's
\* previous child was given.
C15_RestartNewPort ==
    [][\A t \in TaskIds :
          LET a == tasks[t].a
              p == PrevChild(a, tasks[t].child)
          IN  /\ tasks[t].kind \in RestartKinds
              /\ tasks[t].pc = "st_wait"
              /\ tasks'[t].pc = "done" /\ tasks'[t].res = "ok"
              /\ p # NoChild
              => db'[a].port # children[p].port]_vars

\* ---- C16 ----
\* The start request t returns successfully, the request before it was a stop
\* of the same agent that returned true, and every restart of the agent was
\* scheduled before that stop was requested and has returned.
StartAfterCleanStop(t) ==
    /\ t > 1
    /\ tasks[t].kind = "start" /\ tasks[t].pc = "st_wait"
    /\ tasks'[t].pc = "done" /\ tasks'[t].res = "ok"
    /\ tasks[t - 1].kind = "stop" /\ tasks[t - 1].a = tasks[t].a
    /\ tasks[t - 1].pc = "done" /\ tasks[t - 1].res = "ok"
    /\ \A u \in TaskIds : tasks[u].kind \in RestartKinds => u < t - 1 /\ ~Unfinished(u)

\* C16: restartCount counts the automatic restarts since the last clean manual
\* stop: when a manual start returns after a manual stop that completed, the
\* persisted restartCount is 0.
C16_StopStartResetsCount ==
    [][\A t \in TaskIds : StartAfterCleanStop(t) => db'[tasks[t].a].rc = 0]_vars

\* ---- C17 ----
\* The registered, running child of agent a has just exited with a non-zero
\* code while the persisted restartCount is n, and nothing else is going on
\* for the agent.
Crashed(a, n) ==
    /\ processes[a] # NoChild
    /\ children[processes[a]].xh = "pending"
    /\ children[processes[a]].code # 0
    /\ children[processes[a]].status = "running"
    /\ LiveChildren(a) = {}
    /\ \A u \in TaskIds : ~Unfinished(u)
    /\ db[a].rc = n
    /\ Len(tasks) < lim.tasks /\ Len(children) < lim.children

\* The automatic restart of agent a is over: the agent runs again with
\* restartCount n + 1, or a child exited before it reported ready, or the
\* restart ended in an error.
Restarted(a, n) ==
    \/ db[a].status = "running" /\ db[a].rc = n + 1
    \/ \E c \in ChildIds : children[c].a = a /\ children[c].xh = "pending" /\ ~children[c].rdy
    \/ \E u \in TaskIds : tasks[u].kind = "auto" /\ tasks[u].pc = "done" /\ tasks[u].res = "error"

\* The steps of the automatic restart that follows Crashed(a, n): the exit
\* listener sets exactly one restart timer, the restart adds exactly 1 to the
\* persisted restartCount, and its startAgent takes the status from error to
\* starting.
RestartSteps(a, n) ==
    /\ Crashed(a, n) /\ children'[processes[a]].xh = "done"
          => tasks' = Append(tasks, NewTask(NoClient, "auto", a, children[processes[a]].inst, FALSE, "timer"))
    /\ \A t \in TaskIds :
          tasks[t].kind = "auto" /\ tasks[t].a = a /\ db[a].rc = n =>
             /\ tasks[t].pc = "r_delay" /\ tasks'[t].pc = "r_start" => db'[a].rc = n + 1
             /\ tasks[t].pc = "r_start" /\ tasks'[t].pc = "st_port"
                   => db[a].status = "error" /\ db'[a].status = "starting"

\* C17: after the child of a running agent exits with a non-zero code while
\* restartCount is below maxRestartAttempts, exactly one automatic restart
\* follows: restartCount grows by exactly 1, the status goes from error to
\* starting and, provided the new child reports ready, the agent is running
\* again.
C17_CrashRestartsOnce ==
    /\ \A n \in 0..(maxRestartAttempts - 1) : Crashed(1, n) ~> Restarted(1, n)
    /\ [][\A n \in 0..(maxRestartAttempts - 1) : RestartSteps(1, n)]_vars

\* The agent runs again on the child of its first automatic restart.
C17_Witness ==
    /\ Len(tasks) = 2 /\ tasks[2].kind = "auto" /\ tasks[2].res = "ok"
    /\ db[1].status = "running" /\ db[1].rc = 1
    /\ processes[1] = 2 /\ children[2].live

\* ---- C18 ----
\* The step of task t from the service gate of an update request.
UpdateDecided(t) ==
    /\ t \in TaskIds
    /\ tasks[t].kind = "update"
    /\ tasks[t].pc = "svc"
    /\ tasks'[t].pc # "svc"

\* C18: an update is accepted only when the status is stopped or error; when
\* it is starting, running or stopping the update is rejected with a
\* validation error and the row is left unchanged.
C18_UpdateGate ==
    [][\A t \in TaskIds : UpdateDecided(t) =>
          /\ inst[tasks[t].inst].status \in ActiveStatuses
                => tasks'[t].res = "validation" /\ db' = db
          /\ inst[tasks[t].inst].status \in {"stopped", "error"}
                => tasks'[t].res # "validation"]_vars

\* ---- C19 ----
\* The step of task t from the service gate of a delete request.
DeleteDecided(t) ==
    /\ t \in TaskIds
    /\ tasks[t].kind = "delete"
    /\ tasks[t].pc = "svc"
    /\ tasks'[t].pc # "svc"

\* C19: a delete is accepted only when the status is stopped or error, so no
\* row is deleted while a child process or a registry entry exists for its
\* agent; when the status is starting, running or stopping the delete is
\* rejected and the row is kept.
C19_DeleteGate ==
    [][/\ \A t \in TaskIds : DeleteDecided(t) =>
             /\ inst[tasks[t].inst].status \in ActiveStatuses
                   => tasks'[t].res = "validation" /\ created' = created
             /\ inst[tasks[t].inst].status \in {"stopped", "error"}
                   => tasks'[t].res # "validation"
       /\ \A a \in created \ created' : processes[a] = NoChild /\ LiveChildren(a) = {}]_vars

\* ---- C20 ----
\* The request just answered was denied and changed nothing.
DeniedNow ==
    /\ Len(tasks') = Len(tasks) + 1
    /\ tasks'[Len(tasks')].res = "denied"
    /\ UNCHANGED <<created, db, inst, children, processes>>

\* C20: a request on a single agent by a principal who is not an admin and
\* whose user id, as authenticated, is not the agent's createdBy is denied
\* and has no effect; a request by an admin is never denied.
C20_OwnerOrAdmin ==
    [][\A decoded \in Tokens, cl \in Clients, a \in Agents, k \in {"stop", "update", "delete"} :
          LoadAs(decoded, cl, a, k) =>
             /\ decoded.role # "admin" /\ createdBy(a) # decoded.userId => DeniedNow
             /\ decoded.role = "admin" => ~DeniedNow]_vars

\* ---- C21 ----
\* The ports of lo..hi that no row holds.
FreeIn(lo, hi) == {p \in lo..hi : \A a \in created : db[a].port # p}

\* C21: for every range and every set of assigned ports the allocator returns
\* the smallest port of the range that is not assigned, and fails when every
\* port of the range is assigned.
C21_SmallestFreePort ==
    [][\A lo, hi \in RangeEnds : Allocate(lo, hi) =>
          LET call == tasks'[Len(tasks')]
          IN  IF FreeIn(lo, hi) = {}
              THEN call.res = "error" /\ call.port = NoPort
              ELSE /\ call.res = "ok"
                   /\ call.port \in FreeIn(lo, hi)
                   /\ \A p \in FreeIn(lo, hi) : call.port <= p]_vars

\* A call that skipped an assigned port, and one that found the range full.
C21_Witness ==
    /\ Len(tasks) = 2
    /\ tasks[1].res = "ok" /\ tasks[1].port = StartPort + 1 /\ db[1].port = StartPort
    /\ tasks[2].res = "error"

\* ---- C22 ----
\* C22: concurrent starts of different agents both succeed when ports are
\* free: a start whose port was taken by another start in the meantime does
\* not fail while a port of the range is still free.
C22_PortRaceRetried ==
    [][\A t \in TaskIds :
          /\ tasks[t].pc = "st_save_port"
          /\ tasks'[t].pc # "st_save_port"
          /\ tasks[t].port # NoPort
          /\ FreeIn(StartPort, EndPort) # {}
          => tasks'[t].res # "error"]_vars

\* ---- C23 ----
\* Start request t is a retry: an earlier start of the same agent failed and
\* the request before t was a stop of another agent, which has returned.
RetriedStart(t) ==
    /\ tasks[t].kind = "start"
    /\ \E u, v \in TaskIds :
          /\ u < v /\ v = t - 1
          /\ tasks[u].kind = "start" /\ tasks[u].a = tasks[t].a /\ tasks[u].res = "error"
          /\ tasks[v].kind = "stop" /\ tasks[v].a # tasks[t].a /\ tasks[v].res = "ok"

\* C23: with every port of the range assigned a start fails with the
\* no-ports error and spawns no child; a stop that returns has released the
\* agent's port; and the start retried after that stop gets a port of the
\* range, is not refused, and ends with the agent running on that port.
C23_ExhaustedThenRetry ==
    [][\A t \in TaskIds :
          LET a == tasks[t].a
          IN  /\ tasks[t].pc = "st_port" /\ tasks'[t].pc # "st_port"
                 /\ inst[tasks[t].inst].port = NoPort /\ FreeIn(StartPort, EndPort) = {}
                    => tasks'[t].pc = "st_save_port" /\ tasks'[t].port = NoPort
              /\ tasks[t].pc = "st_save_port" /\ tasks'[t].pc # "st_save_port" /\ tasks[t].port = NoPort
                    => /\ tasks'[t].res = "error"
                       /\ db'[a].status = "error" /\ db'[a].err = "no_ports"
                       /\ children' = children
              /\ tasks[t].kind = "stop" /\ Unfinished(t) /\ tasks'[t].res = "ok"
                    => db'[a].port = NoPort
              /\ RetriedStart(t) /\ Unfinished(t) /\ tasks'[t].pc # tasks[t].pc
                    => /\ tasks'[t].res # "error"
                       /\ tasks[t].pc = "st_port" => tasks'[t].port \in Ports
                       /\ tasks'[t].res = "ok" => db'[a].status = "running" /\ db'[a].port \in Ports]_vars

\* The second agent failed to start on the full range, the first was stopped,
\* and the retried start has the second agent running on the port.
C23_Witness ==
    /\ Len(tasks) = 4
    /\ tasks[2].kind = "start" /\ tasks[2].a = 2 /\ tasks[2].res = "error"
    /\ tasks[3].kind = "stop" /\ tasks[3].a = 1 /\ tasks[3].res = "ok"
    /\ tasks[4].kind = "start" /\ tasks[4].a = 2 /\ tasks[4].res = "ok"
    /\ db[2].status = "running" /\ db[2].port = StartPort

\* ---- C24 ----
\* The edges of the status state machine.
StatusEdges ==
    {<<"stopped", "starting">>, <<"error", "starting">>,
     <<"starting", "running">>, <<"starting", "error">>,
     <<"running", "stopping">>, <<"starting", "stopping">>,
     <<"stopping", "stopped">>, <<"running", "stopped">>,
     <<"running", "error">>, <<"stopping", "error">>}

\* C24: every change of an agent's persisted status follows an edge of the
\* state machine.
C24_StatusFollowsEdges ==
    [][\A a \in created :
          db'[a].status # db[a].status => <<db[a].status, db'[a].status>> \in StatusEdges]_vars

\* ---- C25 ----
\* C25: for every agent at rest, the registry holds an entry for the agent if
\* and only if its persisted status is starting, running or stopping.
C25_RegistryIffActive ==
    \A a \in created : Quiescent(a) => (processes[a] # NoChild <=> Active(a))

\* ---- C26 ----
\* C26: in every state the persisted errorMessage is non-null if and only if
\* the persisted status is error.
C26_MessageIffError ==
    \A a \in created : db[a].err # NoMsg <=> db[a].status = "error"

\* An agent that was in error, with its message, is starting again without one.
C26_Witness ==
    /\ db[1].status = "starting" /\ db[1].rc = 1 /\ db[1].err = NoMsg
    /\ \E i \in 1..Len(inst) : inst[i].a = 1 /\ inst[i].status = "starting"

\* ---- C27 ----
\* C27: for a running agent that never heartbeats, the monitor starts a restart
\* only while the restart count is below the maximum; at the maximum it starts
\* none and the agent is put in error with a heartbeat-timeout message.
C27_MonitorStopsAtMaxRestarts ==
    [][\A a \in Agents : HealthRestart(a) => db[a].rc < maxRestartAttempts]_vars

\* ---- C28 ----
\* C28: the monitor restarts exactly the agents whose persisted status is
\* running and whose last heartbeat is two intervals old or older; an agent
\* whose worker heartbeats every interval is never restarted by it.
C28_RestartsStaleRunningOnly ==
    [][\A a \in Agents :
         HealthRestart(a) => /\ db[a].status = "running"
                             /\ children[processes[a]].age >= StaleAge]_vars

\* ---- C29 ----
\* A child process that is running and has no SIGKILL on its way.
AliveChild(c) == children[c].live /\ children[c].sig # "KILL"

\* C29: once the supervisor has received SIGTERM no start is accepted, the stop
\* it issues to every agent with a registry entry is a stop without force, and
\* at its exit no child process is left alive.
C29_GracefulShutdown ==
    [][/\ Shutdown => \A t \in DOMAIN tasks' : tasks'[t].kind = "shutdown" => ~tasks'[t].force
       /\ \A t \in TaskIds : ShuttingDown /\ SvcStart(t) => tasks'[t].pc = "done"
       /\ \A t \in TaskIds : SupervisorExit(t) => \A c \in ChildIds : ~AliveChild(c)]_vars

\* ---- C30 ----
\* Whether a row other than self holds name n.
HeldByOther(n, self) == \E b \in created : b # self /\ db[b].name = n

\* C30: no two rows hold the same name; a create or a rename that reaches the
\* table with a name another row holds ends with a conflict response and
\* leaves every row as it was, also when requests race.
C30_NamesUnique ==
    [][/\ \A a, b \in created' : a # b => db'[a].name # db'[b].name
       /\ \A t \in TaskIds :
            /\ (CreateFind(t) \/ CreateInsert(t)) /\ HeldByOther(tasks[t].name, NoAgent)
                   => /\ HttpStatus(tasks'[t].res) = 409
                      /\ UNCHANGED <<created, db>>
            /\ (RenameFind(t) \/ RenameSave(t)) /\ HeldByOther(tasks[t].name, tasks[t].a)
                   => /\ HttpStatus(tasks'[t].res) = 409
                      /\ UNCHANGED <<created, db>>]_vars

\* Two creates with one name raced: one inserted the row, the index rejected
\* the other; a rename to a held name was refused as well.
C30_Witness ==
    \E t, u, v \in TaskIds :
        /\ tasks[t].kind = "create" /\ tasks[t].res = "ok"
        /\ tasks[u].kind = "create" /\ tasks[u].res = "SequelizeUniqueConstraintError"
        /\ tasks[u].name = tasks[t].name
        /\ tasks[v].kind = "rename" /\ tasks[v].res = "ConflictError"

\* ---- C31 ----
\* The deep merge of a template's config with a request's: under every key the
\* request's value wins, except that two objects are merged key by key.
DeepMerge(templateConfig, config) ==
    [k \in Keys |->
        IF ~Has(config, k) THEN templateConfig[k]
        ELSE IF config[k].obj /\ templateConfig[k].obj
        THEN Object([j \in SubKeys |-> IF config[k].sub[j] # Undef THEN config[k].sub[j]
                                       ELSE templateConfig[k].sub[j]])
        ELSE config[k]]

\* C31: an agent created with a template id stores the deep merge of the
\* template's config with the request's config.
C31_ConfigIsDeepMerge ==
    [][\A t \in TaskIds :
         (CreateInsert(t) /\ tasks[t].templateId # NoTemplate /\ tasks'[t].res = "ok")
            => db'[tasks'[t].a].config =
                   DeepMerge(Template(tasks[t].templateId).config, tasks[t].config)]_vars

\* ---- C32 ----
\* A config whose max_tokens, when given, is in 1..32000 and whose port, when
\* given, is in 1024..65535.
WithinLimits(config) ==
    /\ Has(config, "max_tokens") => config["max_tokens"].v >= 1 /\ config["max_tokens"].v <= 32000
    /\ Has(config, "port") => config["port"].v >= 1024 /\ config["port"].v <= 65535

\* C32: create, update and validate-config reject with a validation error a
\* config whose max_tokens is outside 1..32000 or whose port is outside
\* 1024..65535, leaving the rows as they were, and accept the configs within
\* the limits.
C32_ConfigLimits ==
    [][/\ \A t \in TaskIds :
            (CreateInsert(t) \/ SvcUpdateConfig(t)) /\ ~WithinLimits(tasks[t].config)
                => HttpStatus(tasks'[t].res) = 400 /\ UNCHANGED <<created, db>>
       /\ \A t \in TaskIds :
            (CreateInsert(t) \/ SvcUpdateConfig(t)) /\ WithinLimits(tasks[t].config)
                => HttpStatus(tasks'[t].res) # 400
       /\ \A cl \in Clients, config \in LimitConfigs :
            ValidateConfig(cl, config)
                => (tasks'[Len(tasks')].res = "ok" <=> WithinLimits(config))]_vars

\* ---- C33 ----
\* C33: when a child exits and no stop was sent to it, the persisted status
\* becomes stopped on exit code 0 and error with a message naming the code
\* otherwise, and the registry entry goes only after that write.
C33_ExitPersistedThenRemoved ==
    [][\A c \in ChildIds :
         /\ \A code \in {0, 1} :
              ChildExit(c, code) /\ children[c].sig = "none"
                 => /\ db'[children[c].a].status = IF code = 0 THEN "stopped" ELSE "error"
                    /\ code # 0 => db'[children[c].a].err = "exit_1"
                    /\ code = 0 => db'[children[c].a].err = NoMsg
                    /\ processes' = processes
         /\ ExitHandler(c) => processes'[children[c].a] = NoChild /\ db' = db]_vars

\* A child ended with code 0 on its own; its agent is stopped and the entry
\* is gone.
C33_Witness ==
    \E c \in ChildIds :
        /\ ~children[c].live /\ children[c].xh = "done"
        /\ db[children[c].a].status = "stopped"
        /\ processes[children[c].a] = NoChild
        /\ \A t \in TaskIds : tasks[t].kind # "stop"

\* ---- C34 ----
\* C34: a ready or heartbeat record changes the persisted status only from
\* starting to running; a status of stopping, stopped or error stays.
C34_RecordOnlyLeavesStarting ==
    [][\A c \in ChildIds :
         (ChildReady(c) \/ ChildHeartbeat(c)) /\ db'[children[c].a].status # db[children[c].a].status
            => db[children[c].a].status = "starting" /\ db'[children[c].a].status = "running"]_vars

\* ---- C35 ----
\* C35: every stdout line is taken in on its own: a chunk without a ready or
\* heartbeat line changes no registry entry and no row, and a ready line in a
\* chunk turns the entry of its child and the row running, whatever other
\* lines the chunk holds.
C35_EachLineIngested ==
    [][\A c \in ChildIds, chunk \in Chunks :
         StdoutData(c, chunk)
            => /\ ~HasLine(chunk, "ready") /\ ~HasLine(chunk, "heartbeat")
                    => UNCHANGED <<db, processes>> /\ children'[c].status = children[c].status
               /\ HasLine(chunk, "ready") /\ processes[children[c].a] = c
                    => children'[c].status = "running" /\ db'[children[c].a].status = "running"]_vars

\* ---- C36 ----
\* Child d of the agent of child c was spawned after c and holds the agent's
\* registry entry.
LaterChild(c, d) == d > c /\ children[d].a = children[c].a /\ processes[children[c].a] = d

\* C36: the exit of an earlier child leaves a later child of the same agent
\* alone: the later child's registry entry stays, the persisted status stays,
\* and no restart is scheduled while the later child is alive.
C36_EarlierExitSparesLaterChild ==
    [][\A c, d \in ChildIds :
         LaterChild(c, d)
            => /\ \A code \in {-1, 0, 1} :
                    ChildExit(c, code) => db'[children[c].a].status = db[children[c].a].status
               /\ ExitHandler(c) => processes'[children[c].a] = d
               /\ ExitHandler(c) /\ children[d].live => tasks' = tasks]_vars

\* ---- C37 ----
\* C37: no child is orphaned: every live child that was not sent SIGKILL is
\* the registry entry of its agent.
C37_NoOrphan ==
    \A c \in ChildIds :
        c <= Len(children) /\ children[c].live /\ children[c].sig # "KILL"
            => processes[children[c].a] = c

\* ---- C38 ----
\* Non-force stop request t has found the registry entry and is suspended in
\* its updateStatus('stopping'); the child of that entry has exited on its
\* own meanwhile, before the request registers its exit listener.
StopRacedByExit(t) ==
    /\ t \in TaskIds
    /\ tasks[t].kind = "stop"
    /\ ~tasks[t].force
    /\ tasks[t].pc = "sp_kill"
    /\ ~children[tasks[t].child].live

RacedStopReturned(t) ==
    /\ t \in TaskIds
    /\ tasks[t].kind = "stop"
    /\ tasks[t].pc = "done"
    /\ db[tasks[t].a].status # "stopping"

\* C38: a non-force stop whose child exits by itself before the stop has
\* registered its exit listener still returns, and the agent is then not in
\* status stopping.
C38_RacedStopReturns ==
    \A t \in 1..StopTasks :
        StopRacedByExit(t) ~> RacedStopReturned(t)

\* ---- C39 ----
\* The messages of the failures a start can meet after its guards: no free
\* port, the port save rejected, the child gone before ready, ready timeout.
StartFailures == {"no_ports", "port_taken", "not_found", "ready_timeout"}

\* Start t leaves its catch block in this step, rethrowing one of StartFailures.
StartFails(t) ==
    /\ tasks[t].pc \in {"st_save_port", "st_wait", "ct_del"}
    /\ tasks[t].pc = "ct_del" => tasks[t].err \in StartFailures
    /\ tasks'[t].pc = "done"
    /\ tasks'[t].res = "error"

\* C39: when a start fails, the row holds no port and no processId, the
\* registry has no entry for the agent, and the row is in status error with
\* an error message.
C39_FailedStartLeavesCleanRow ==
    [][\A t \in TaskIds :
         StartFails(t)
            => /\ db'[tasks[t].a].port = NoPort
               /\ db'[tasks[t].a].pid = NoPid
               /\ processes'[tasks[t].a] = NoChild
               /\ db'[tasks[t].a].status = "error"
               /\ db'[tasks[t].a].err # NoMsg]_vars

====
